---- MODULE Spec2Model ----
(***************************************************************************)
(* storeit: the generic GORM store (store.go) and the Criteria it compiles *)
(* (criteria.go).                                                          *)
(*                                                                         *)
(* A *GormStore is a pointer into the heap `stores` (a sequence of store   *)
(* structs, the index is the address).  A *gorm.DB query handle is the log *)
(* of the builder calls made on it, in call order: the backend is an       *)
(* external collaborator, what the store does is decided by the calls it   *)
(* makes.  A nil slice and an empty slice are both <<>>: every slice of    *)
(* the store and of the Criteria is only ever written by reset (nil) and   *)
(* by append, so it is non-nil exactly when it is non-empty.  A *Criteria  *)
(* argument is a sequence of length 0 (nil) or 1 (the struct pointed to).  *)
(***************************************************************************)
EXTENDS Integers, Sequences, FiniteSets, TLC

VARIABLES stores, origin, call, criteria, query, paginate, extract, quote

vars == <<stores, origin, call, criteria, query, paginate, extract, quote>>

(***************************************************************************)
(* Bounds of the exploration.                                              *)
(***************************************************************************)
\* clones allocated plus transient settings held by all store instances together
MaxFootprint == 3
\* clause entries a Criteria accumulates before its mutators stop
MaxClauses == 2
\* preload requests one store holds after Criteria preloads were merged into it
MaxPreloads == 2

(***************************************************************************)
(* Input domains of the operations.                                        *)
(***************************************************************************)
NoTx == 0
Txs == {1, 2}
FieldLists == {<<"name">>}
Closures == {"f"}
PreloadArgs == {[name |-> "Addresses", args |-> <<"x">>],
                [name |-> "", args |-> <<>>]}
Conds == {[query |-> "a = ?", args |-> <<"1">>], [query |-> "b = ?", args |-> <<>>]}
Groups == {<<>>,
           <<[query |-> "a = ?", args |-> <<"1">>]>>,
           <<[query |-> "a = ?", args |-> <<"1">>], [query |-> "b = ?", args |-> <<"1">>]>>,
           <<[query |-> "a = ?", args |-> <<"1">>], [query |-> "b = ?", args |-> <<"1">>],
             [query |-> "c = ?", args |-> <<"1">>]>>}
OrderFields == {"name", "age"}
GroupBys == {"age"}
Ints == {0, 1, 2}

(***************************************************************************)
(* criteria.go: the Criteria struct and its mutators.                      *)
(***************************************************************************)
NewCriteria ==
  [whereConditions |-> <<>>, groupOrConditions |-> <<>>, orConditions |-> <<>>,
   notConditions |-> <<>>, havingConditions |-> <<>>, joinConditions |-> <<>>,
   orders |-> <<>>, limit |-> 0, offset |-> 0, group |-> "", page |-> 0,
   preloads |-> <<>>]

Where(s, q, values) ==
  [s EXCEPT !.whereConditions = Append(@, [query |-> q, args |-> values])]

WhereNot(s, q, values) ==
  [s EXCEPT !.notConditions = Append(@, [query |-> q, args |-> values])]

\* criteria.go:178, as written there: the fragment is "<field> IN ?"
WhereNotIn(s, field, values) == Where(s, field \o " IN ?", <<values>>)

\* criteria.go:182, as written there: the fragment is "<field> NOT IN ?"
WhereIn(s, field, values) == Where(s, field \o " NOT IN ?", <<values>>)

GroupOr(s, grp) ==
  [s EXCEPT !.groupOrConditions = Append(@, grp)]

OrWhere(s, q, values) ==
  [s EXCEPT !.orConditions = Append(@, [query |-> q, args |-> values])]

\* a plausible bug: the directive is put in front of the earlier ones
OrderPrepends(s, value, reorder) ==
  [s EXCEPT !.orders = <<IF reorder THEN value \o " DESC" ELSE value>> \o @]

Order(s, value, reorder) ==
  [s EXCEPT !.orders = Append(@, IF reorder THEN value \o " DESC" ELSE value)]

OrderDesc(s, value) == Order(s, value, TRUE)

OrderAsc(s, value) == Order(s, value, FALSE)

Limit(s, l) == [s EXCEPT !.limit = l]

Offset(s, o) == [s EXCEPT !.offset = o]

\* a plausible bug: the page is stored as given
PageUnclamped(s, p) == [s EXCEPT !.page = p]

Page(s, p) == [s EXCEPT !.page = IF p < 1 THEN 1 ELSE p]

PerPage(s, perPage) == [s EXCEPT !.limit = perPage]

Group(s, q) == [s EXCEPT !.group = q]

Having(s, q, values) ==
  [s EXCEPT !.havingConditions = Append(@, [query |-> q, args |-> values])]

Joins(s, q, values) ==
  [s EXCEPT !.joinConditions = Append(@, [query |-> q, args |-> values])]

CriteriaAddPreload(s, name, args) ==
  [s EXCEPT !.preloads = Append(@, [name |-> name, args |-> args])]

GetPage(s) == s.page

GetPerPage(s) == s.limit

GetLimit(s) == s.limit

\* a plausible bug: the explicit offset is ignored
GetOffsetFromPage(s) == GetLimit(s) * (GetPage(s) - 1)

GetOffset(s) == IF s.offset > 0 THEN s.offset ELSE GetLimit(s) * (GetPage(s) - 1)

unsetOrder(s) == [s EXCEPT !.orders = <<>>]

\* a plausible bug: the explicit offset survives
unsetLimitKeepsOffset(s) == [s EXCEPT !.limit = 0]

unsetLimit(s) == [s EXCEPT !.limit = 0, !.offset = 0]

(***************************************************************************)
(* store.go: the store struct, the clone-once builder and reset.           *)
(***************************************************************************)
New(db) ==
  [db |-> db, tx |-> NoTx, preloads |-> <<>>, columns |-> <<>>, hidden |-> <<>>,
   scopeClosures |-> <<>>, cloned |-> FALSE, unscoped |-> FALSE]

\* a plausible bug: the receiver is marked cloned and handed back, no copy is made
onceCloneInPlace(h, r) ==
  [heap |-> [h EXCEPT ![r].cloned = TRUE], nr |-> r]

\* onceClone returns the receiver when it is already a clone, and otherwise
\* allocates a new store that holds copies of the receiver's lists
onceClone(h, r) ==
  IF h[r].cloned
  THEN [heap |-> h, nr |-> r]
  ELSE LET newStore ==
             [New(h[r].db) EXCEPT
                !.scopeClosures = IF Len(h[r].scopeClosures) > 0
                                  THEN <<>> \o h[r].scopeClosures ELSE <<>>,
                !.hidden = IF Len(h[r].hidden) > 0 THEN <<>> \o h[r].hidden ELSE <<>>,
                !.preloads = IF Len(h[r].preloads) > 0 THEN <<>> \o h[r].preloads ELSE <<>>,
                !.columns = IF Len(h[r].columns) > 0 THEN <<>> \o h[r].columns ELSE <<>>,
                !.unscoped = h[r].unscoped,
                !.cloned = TRUE]
       IN [heap |-> Append(h, newStore), nr |-> Len(h) + 1]

\* a plausible bug: a later transaction replaces the bound one
SetTxRebinds(h, r, tx) ==
  LET c == onceClone(h, r)
  IN [heap |-> [c.heap EXCEPT ![c.nr].tx = tx], nr |-> c.nr]

SetTx(h, r, tx) ==
  IF h[r].tx # NoTx
  THEN [heap |-> h, nr |-> r]
  ELSE LET c == onceClone(h, r)
       IN [heap |-> [c.heap EXCEPT ![c.nr].tx = tx], nr |-> c.nr]

Unscoped(h, r) ==
  LET c == onceClone(h, r)
  IN [heap |-> [c.heap EXCEPT ![c.nr].unscoped = TRUE], nr |-> c.nr]

WithTrashed(h, r, with) ==
  LET c == onceClone(h, r)
  IN [heap |-> [c.heap EXCEPT ![c.nr].unscoped = with], nr |-> c.nr]

\* a plausible bug: the columns are appended to the receiver, not to the clone
addColumnsOnReceiver(h, r, columns) ==
  LET c == onceClone(h, r)
  IN [heap |-> [c.heap EXCEPT ![r].columns = @ \o columns], nr |-> c.nr]

addColumns(h, r, columns) ==
  LET c == onceClone(h, r)
  IN [heap |-> [c.heap EXCEPT ![c.nr].columns = @ \o columns], nr |-> c.nr]

addHiddenColumns(h, r, columns) ==
  LET c == onceClone(h, r)
  IN [heap |-> [c.heap EXCEPT ![c.nr].hidden = @ \o columns], nr |-> c.nr]

Hidden(h, r, fields) == addHiddenColumns(h, r, fields)

Emit(h, r, fields) ==
  LET c == onceClone(h, r)
  IN Hidden(c.heap, c.nr, fields)

Columns(h, r, fields) == addColumns(h, r, fields)

\* a plausible bug: the closure is appended to the clone, the receiver is returned
ScopeClosureReturnsReceiver(h, r, closure) ==
  LET c == onceClone(h, r)
  IN [heap |-> [c.heap EXCEPT ![c.nr].scopeClosures = Append(@, closure)], nr |-> r]

ScopeClosure(h, r, closure) ==
  LET c == onceClone(h, r)
  IN [heap |-> [c.heap EXCEPT ![c.nr].scopeClosures = Append(@, closure)], nr |-> c.nr]

AddPreload(h, r, name, args) ==
  LET c == onceClone(h, r)
  IN [heap |-> [c.heap EXCEPT ![c.nr].preloads = Append(@, [name |-> name, args |-> args])],
      nr |-> c.nr]

reset(h, r) ==
  [h EXCEPT ![r].columns = <<>>, ![r].hidden = <<>>, ![r].preloads = <<>>,
            ![r].scopeClosures = <<>>, ![r].unscoped = FALSE, ![r].tx = NoTx]

(***************************************************************************)
(* store.go: present, the compilation of store state and Criteria into a   *)
(* query handle.  A handle is the sequence of builder calls made on it;    *)
(* one call is a record: kind is the gorm method, query and args are the   *)
(* arguments (variadic tells whether args was spread with "..."), n is an  *)
(* integer argument and sub the calls that built a handle passed as the    *)
(* argument.                                                               *)
(***************************************************************************)
DBCall(kind, q, args, variadic, n, sub) ==
  [kind |-> kind, query |-> q, args |-> args, variadic |-> variadic, n |-> n, sub |-> sub]

\* r.tx.WithContext(ctx) when a transaction is bound, r.db.WithContext(ctx) otherwise
withContext(s) == <<DBCall("WithContext", "", <<>>, FALSE, s.tx, <<>>)>>

\* the preload requests of the store after the Criteria's were merged into them
mergePreloads(s, c) ==
  IF Len(s.preloads) > 0
  THEN IF Len(c) > 0 /\ Len(c[1].preloads) > 0
       THEN s.preloads \o c[1].preloads
       ELSE s.preloads
  ELSE s.preloads

presentPreloads(preloads) ==
  LET named == SelectSeq(preloads, LAMBDA p : p.name # "")
  IN [i \in 1..Len(named) |->
        DBCall("Preload", named[i].name, named[i].args, Len(named[i].args) > 0, 0, <<>>)]

presentScopeClosures(s) ==
  [i \in 1..Len(s.scopeClosures) |->
     DBCall("Closure", s.scopeClosures[i], <<>>, FALSE, 0, <<>>)]

presentProjection(s) ==
  (IF Len(s.hidden) > 0 THEN <<DBCall("Omit", "", s.hidden, TRUE, 0, <<>>)>> ELSE <<>>)
  \o (IF Len(s.columns) > 0 THEN <<DBCall("Select", "", s.columns, FALSE, 0, <<>>)>> ELSE <<>>)
  \o (IF s.unscoped THEN <<DBCall("Unscoped", "", <<>>, FALSE, 0, <<>>)>> ELSE <<>>)

\* one groupOrConditions entry: nothing, a plain Where, or Where(db1) with db1
\* built from the first member and the members at (0-based) index above 1
presentGroup(grp) ==
  IF Len(grp) = 0 THEN <<>>
  ELSE IF Len(grp) = 1
       THEN <<DBCall("Where", grp[1].query, grp[1].args, TRUE, 0, <<>>)>>
       ELSE LET ors == SelectSeq([i \in 1..Len(grp) |-> [i |-> i - 1, spec |-> grp[i]]],
                                 LAMBDA e : e.i > 1)
                db1 == <<DBCall("Where", grp[1].query, grp[1].args, TRUE, 0, <<>>)>>
                       \o [k \in 1..Len(ors) |->
                             DBCall("Or", ors[k].spec.query, ors[k].spec.args, TRUE, 0, <<>>)]
            IN <<DBCall("Where", "", <<>>, FALSE, 0, db1)>>

RECURSIVE presentGroups(_)
presentGroups(groups) ==
  IF Len(groups) = 0 THEN <<>>
  ELSE presentGroup(Head(groups)) \o presentGroups(Tail(groups))

presentConditions(kind, list, variadic) ==
  [i \in 1..Len(list) |-> DBCall(kind, list[i].query, list[i].args, variadic, 0, <<>>)]

presentOrders(orders) ==
  [i \in 1..Len(orders) |-> DBCall("Order", orders[i], <<>>, FALSE, 0, <<>>)]

\* a plausible bug (an earlier revision): the limit is applied only when positive
presentOffsetLimitNoCoupling(c) ==
  (IF GetOffset(c) > 0
   THEN <<DBCall("Offset", "", <<>>, FALSE, GetOffset(c), <<>>)>> ELSE <<>>)
  \o (IF c.limit > 0
      THEN <<DBCall("Limit", "", <<>>, FALSE, c.limit, <<>>)>> ELSE <<>>)

presentOffsetLimit(c) ==
  (IF GetOffset(c) > 0
   THEN <<DBCall("Offset", "", <<>>, FALSE, GetOffset(c), <<>>)>> ELSE <<>>)
  \o (IF c.limit > 0 \/ GetOffset(c) > 0
      THEN <<DBCall("Limit", "", <<>>, FALSE, c.limit, <<>>)>> ELSE <<>>)

\* a plausible bug: the orders are applied before the predicates
presentCriteriaOrdersFirst(c) ==
  presentOrders(c.orders)
  \o presentGroups(c.groupOrConditions)
  \o presentConditions("Where", c.whereConditions, TRUE)
  \o presentConditions("Or", c.orConditions, FALSE)
  \o presentConditions("Not", c.notConditions, FALSE)
  \o presentConditions("Having", c.havingConditions, FALSE)
  \o presentConditions("Joins", c.joinConditions, FALSE)
  \o presentOffsetLimit(c)

presentCriteria(c) ==
  presentGroups(c.groupOrConditions)
  \o presentConditions("Where", c.whereConditions, TRUE)
  \o presentConditions("Or", c.orConditions, FALSE)
  \o presentConditions("Not", c.notConditions, FALSE)
  \o presentConditions("Having", c.havingConditions, FALSE)
  \o presentConditions("Joins", c.joinConditions, FALSE)
  \o presentOrders(c.orders)
  \o presentOffsetLimit(c)

\* present(ctx, criteria): the handle it returns and the heap it leaves (the
\* merged preloads are stored back into the receiver)
present(h, r, c) ==
  LET merged == mergePreloads(h[r], c)
      h1 == [h EXCEPT ![r].preloads = merged]
      s == h1[r]
  IN [heap |-> h1,
      db |-> withContext(s)
             \o presentPreloads(s.preloads)
             \o presentScopeClosures(s)
             \o presentProjection(s)
             \o (IF Len(c) > 0 THEN presentCriteria(c[1]) ELSE <<>>)]

(***************************************************************************)
(* store.go: the terminal operations.  Each yields the heap it leaves, the *)
(* calls it made on the query handle, and the error value it returns.  An  *)
(* operation that returns the *gorm.DB handle returns no error value of    *)
(* its own (the backend's error travels inside the handle): its err is "". *)
(* For the others "backend" stands for any error of the backend call,      *)
(* which the caller draws (fails).                                         *)
(* given is the caller's Criteria as the operation leaves it: the          *)
(* operations take a *Criteria, so a write through it would show there.    *)
(***************************************************************************)
Finish(kind) == <<DBCall(kind, "", <<>>, FALSE, 0, <<>>)>>

WhereId == <<DBCall("Where", "id = ?", <<"id">>, TRUE, 0, <<>>)>>

BackendErr(fails) == IF fails THEN "backend" ELSE ""

\* present, the finishing calls, then reset
presentThenReset(h, r, c, finish, err) ==
  LET p == present(h, r, c)
  IN [heap |-> reset(p.heap, r), db |-> p.db \o finish, err |-> err, given |-> c]

\* present and the finishing calls; the receiver is not reset
presentOnly(h, r, c, finish, err) ==
  LET p == present(h, r, c)
  IN [heap |-> p.heap, db |-> p.db \o finish, err |-> err, given |-> c]

Insert(h, r) ==
  [heap |-> reset(h, r), db |-> withContext(h[r]) \o Finish("Create"), err |-> "",
   given |-> <<>>]

Create(h, r) == presentThenReset(h, r, <<>>, Finish("Create"), "")

Creates(h, r) == presentThenReset(h, r, <<>>, Finish("Create"), "")

CreateInBatches(h, r) == presentThenReset(h, r, <<>>, Finish("CreateInBatches"), "")

Delete(h, r) == presentThenReset(h, r, <<>>, Finish("Delete"), "")

Deletes(h, r, c) == presentThenReset(h, r, c, Finish("Delete"), "")

DeleteById(h, r) == presentThenReset(h, r, <<>>, Finish("Delete"), "")

Updates(h, r, c) ==
  presentThenReset(h, r, c, Finish("Model") \o Finish("Updates"), "")

Save(h, r) == presentOnly(h, r, <<>>, Finish("Save"), "")

Update(h, r, c) ==
  presentThenReset(h, r, c, Finish("Model") \o Finish("Update"), "")

UpdateById(h, r) ==
  presentThenReset(h, r, <<>>, Finish("Model") \o WhereId \o Finish("Update"), "")

UpdatesById(h, r) ==
  presentThenReset(h, r, <<>>, Finish("Model") \o WhereId \o Finish("Updates"), "")

\* a plausible bug: an empty id list is handed to the backend
FindByIDsUnguarded(h, r, nids, fails) ==
  presentThenReset(h, r, <<>>, Finish("Find"), BackendErr(fails))

\* nids is len(ids)
FindByIDs(h, r, nids, fails) ==
  IF nids < 1
  THEN [heap |-> h, db |-> <<>>, err |-> "id is empty", given |-> <<>>]
  ELSE presentThenReset(h, r, <<>>, Finish("Find"), BackendErr(fails))

FindByID(h, r, fails) ==
  presentThenReset(h, r, <<>>, Finish("First"), BackendErr(fails))

First(h, r, c, fails) == presentThenReset(h, r, c, Finish("Take"), BackendErr(fails))

FindInBatches(h, r, c, fails) ==
  presentThenReset(h, r, c, Finish("FindInBatches"), BackendErr(fails))

\* a plausible bug: the copy keeps its limit and offset
strippedOrderOnly(c) == <<unsetOrder(c)>>

\* c.unsetOrder(); c.unsetLimit() on the aggregate's own copy of the Criteria
stripped(c) == <<unsetLimit(unsetOrder(c))>>

\* copier.Copy(&c, criteria): a shallow copy of the struct pointed to.  What
\* the library answers for a nil criteria is the caller's draw copyFails.
copierCopy(c, copyFails) ==
  IF Len(c) = 0
  THEN [err |-> IF copyFails THEN "copy" ELSE "", c |-> NewCriteria]
  ELSE [err |-> "", c |-> c[1]]

\* a plausible bug: order and limit are unset on the caller's Criteria itself
CountOnGiven(h, r, c, copyFails, fails) ==
  LET cp == copierCopy(c, copyFails)
  IN IF cp.err # ""
     THEN [heap |-> h, db |-> <<>>, err |-> cp.err, given |-> c]
     ELSE [presentOnly(h, r, stripped(cp.c), Finish("Model") \o Finish("Count"),
                       BackendErr(fails)) EXCEPT !.given = IF Len(c) > 0 THEN stripped(c[1]) ELSE c]

Count(h, r, c, copyFails, fails) ==
  LET cp == copierCopy(c, copyFails)
  IN IF cp.err # ""
     THEN [heap |-> h, db |-> <<>>, err |-> cp.err, given |-> c]
     ELSE [presentOnly(h, r, stripped(cp.c), Finish("Model") \o Finish("Count"),
                       BackendErr(fails)) EXCEPT !.given = c]

Exists(h, r, c, copyFails, fails) == Count(h, r, c, copyFails, fails)

Sum(h, r, c, copyFails, fails) ==
  LET cp == copierCopy(c, copyFails)
  IN IF cp.err # ""
     THEN [heap |-> h, db |-> <<>>, err |-> cp.err, given |-> c]
     ELSE [presentOnly(h, r, stripped(cp.c),
                       Finish("Model")
                       \o <<DBCall("Select", "SUM(column) as total", <<>>, FALSE, 0, <<>>)>>
                       \o Finish("Scan"), BackendErr(fails)) EXCEPT !.given = c]

Avg(h, r, c, copyFails, fails) ==
  LET cp == copierCopy(c, copyFails)
  IN IF cp.err # ""
     THEN [heap |-> h, db |-> <<>>, err |-> cp.err, given |-> c]
     ELSE [presentOnly(h, r, stripped(cp.c),
                       Finish("Model")
                       \o <<DBCall("Select", "AVG(column) as avg", <<>>, FALSE, 0, <<>>)>>
                       \o Finish("Scan"), BackendErr(fails)) EXCEPT !.given = c]

Find(h, r, c, fails) == presentThenReset(h, r, c, Finish("Find"), BackendErr(fails))

Pluck(h, r, c, fails) ==
  presentThenReset(h, r, c, Finish("Model") \o Finish("Pluck"), BackendErr(fails))

All(h, r, fails) == Find(h, r, <<>>, fails)

(***************************************************************************)
(* The store lifecycle: one store made by New, the fluent setters and the  *)
(* terminal operations called on any allocated instance.  call records the *)
(* last call: its name, its receiver, the instance a setter returned, and  *)
(* whether a terminal operation got as far as its backend call.  origin[i] *)
(* is the instance the instance i was cloned from (0 for a store made by   *)
(* New).  paginate is the Paginate call in progress with its two tasks.    *)
(***************************************************************************)
Instances == 1..Len(stores)

Settings(s) ==
  Len(s.columns) + Len(s.hidden) + Len(s.scopeClosures) + Len(s.preloads)
  + (IF s.unscoped THEN 1 ELSE 0) + (IF s.tx # NoTx THEN 1 ELSE 0)

RECURSIVE TotalSettings(_)
TotalSettings(h) ==
  IF Len(h) = 0 THEN 0 ELSE Settings(Head(h)) + TotalSettings(Tail(h))

\* the store made by New is not counted
Footprint(h) == (Len(h) - 1) + TotalSettings(h)

\* no Paginate call was made
NoPaginate == [pc |-> "idle"]

\* no ExtractCriteria call was made
\* no identifier is being quoted
NoQuote == [word |-> "", segments |-> 0, op |-> "", operator |-> "", reorder |-> FALSE,
            result |-> ""]

NoExtract == [source |-> [kind |-> "nil", fields |-> <<>>], called |-> FALSE, err |-> ""]

\* the Criteria a caller hands to a terminal operation: none, or one built
\* with the Criteria's own mutators
CriteriaInputs ==
  {<<>>,
   <<CriteriaAddPreload(Limit(Where(NewCriteria, "a = ?", <<"1">>), 1), "Emails", <<>>)>>}

Init ==
  /\ stores = <<New("db")>>
  /\ origin = <<0>>
  /\ call = [op |-> "New", recv |-> 0, ret |-> 1, ran |-> FALSE]
  /\ criteria = <<>>
  /\ query = <<>>
  /\ paginate = NoPaginate
  /\ extract = NoExtract
  /\ quote = NoQuote

\* a setter was called on r and gave res = [heap, nr]
Setter(op, r, res) ==
  /\ Footprint(res.heap) <= MaxFootprint
  /\ stores' = res.heap
  /\ origin' = LET o == IF Len(res.heap) > Len(origin) THEN Append(origin, 0) ELSE origin
               IN IF stores[r].cloned THEN o ELSE [o EXCEPT ![res.nr] = r]
  /\ call' = [op |-> op, recv |-> r, ret |-> res.nr, ran |-> FALSE]
  /\ UNCHANGED <<criteria, query, paginate, extract, quote>>

CallSetTx == \E r \in Instances, tx \in Txs : Setter("SetTx", r, SetTx(stores, r, tx))

CallUnscoped == \E r \in Instances : Setter("Unscoped", r, Unscoped(stores, r))

CallWithTrashed ==
  \E r \in Instances, with \in BOOLEAN : Setter("WithTrashed", r, WithTrashed(stores, r, with))

CallHidden ==
  \E r \in Instances, fields \in FieldLists : Setter("Hidden", r, Hidden(stores, r, fields))

CallEmit ==
  \E r \in Instances, fields \in FieldLists : Setter("Emit", r, Emit(stores, r, fields))

CallColumns ==
  \E r \in Instances, fields \in FieldLists : Setter("Columns", r, Columns(stores, r, fields))

CallScopeClosure ==
  \E r \in Instances, f \in Closures : Setter("ScopeClosure", r, ScopeClosure(stores, r, f))

CallAddPreload ==
  \E r \in Instances, p \in PreloadArgs :
    Setter("AddPreload", r, AddPreload(stores, r, p.name, p.args))

\* a terminal operation was called on r and gave res = [heap, db, err]
Terminal(op, r, res) ==
  /\ Footprint(res.heap) <= MaxFootprint
  /\ stores' = res.heap
  /\ call' = [op |-> op, recv |-> r, ret |-> 0, ran |-> Len(res.db) > 0]
  /\ UNCHANGED <<origin, criteria, query, paginate, extract, quote>>

CallInsert == \E r \in Instances : Terminal("Insert", r, Insert(stores, r))

CallCreate == \E r \in Instances : Terminal("Create", r, Create(stores, r))

CallCreates == \E r \in Instances : Terminal("Creates", r, Creates(stores, r))

CallCreateInBatches == \E r \in Instances : Terminal("CreateInBatches", r, CreateInBatches(stores, r))

CallDelete == \E r \in Instances : Terminal("Delete", r, Delete(stores, r))

CallDeletes ==
  \E r \in Instances, c \in CriteriaInputs : Terminal("Deletes", r, Deletes(stores, r, c))

CallDeleteById == \E r \in Instances : Terminal("DeleteById", r, DeleteById(stores, r))

CallUpdates ==
  \E r \in Instances, c \in CriteriaInputs : Terminal("Updates", r, Updates(stores, r, c))

CallSave == \E r \in Instances : Terminal("Save", r, Save(stores, r))

CallUpdate ==
  \E r \in Instances, c \in CriteriaInputs : Terminal("Update", r, Update(stores, r, c))

CallUpdateById == \E r \in Instances : Terminal("UpdateById", r, UpdateById(stores, r))

CallUpdatesById == \E r \in Instances : Terminal("UpdatesById", r, UpdatesById(stores, r))

CallFindByIDs ==
  \E r \in Instances, nids \in {0, 1}, fails \in BOOLEAN :
    Terminal("FindByIDs", r, FindByIDs(stores, r, nids, fails))

CallFindByID ==
  \E r \in Instances, fails \in BOOLEAN : Terminal("FindByID", r, FindByID(stores, r, fails))

CallFirst ==
  \E r \in Instances, c \in CriteriaInputs, fails \in BOOLEAN :
    Terminal("First", r, First(stores, r, c, fails))

CallFindInBatches ==
  \E r \in Instances, c \in CriteriaInputs, fails \in BOOLEAN :
    Terminal("FindInBatches", r, FindInBatches(stores, r, c, fails))

CallCount ==
  \E r \in Instances, c \in CriteriaInputs, copyFails \in BOOLEAN, fails \in BOOLEAN :
    /\ copyFails => Len(c) = 0
    /\ Terminal("Count", r, Count(stores, r, c, copyFails, fails))

CallExists ==
  \E r \in Instances, c \in CriteriaInputs, copyFails \in BOOLEAN, fails \in BOOLEAN :
    /\ copyFails => Len(c) = 0
    /\ Terminal("Exists", r, Exists(stores, r, c, copyFails, fails))

CallSum ==
  \E r \in Instances, c \in CriteriaInputs, copyFails \in BOOLEAN, fails \in BOOLEAN :
    /\ copyFails => Len(c) = 0
    /\ Terminal("Sum", r, Sum(stores, r, c, copyFails, fails))

CallAvg ==
  \E r \in Instances, c \in CriteriaInputs, copyFails \in BOOLEAN, fails \in BOOLEAN :
    /\ copyFails => Len(c) = 0
    /\ Terminal("Avg", r, Avg(stores, r, c, copyFails, fails))

CallFind ==
  \E r \in Instances, c \in CriteriaInputs, fails \in BOOLEAN :
    Terminal("Find", r, Find(stores, r, c, fails))

CallPluck ==
  \E r \in Instances, c \in CriteriaInputs, fails \in BOOLEAN :
    Terminal("Pluck", r, Pluck(stores, r, c, fails))

CallAll ==
  \E r \in Instances, fails \in BOOLEAN : Terminal("All", r, All(stores, r, fails))

Next ==
  \/ CallSetTx \/ CallUnscoped \/ CallWithTrashed \/ CallHidden \/ CallEmit
  \/ CallColumns \/ CallScopeClosure \/ CallAddPreload
  \/ CallInsert \/ CallCreate \/ CallCreates \/ CallCreateInBatches
  \/ CallDelete \/ CallDeletes \/ CallDeleteById
  \/ CallUpdates \/ CallSave \/ CallUpdate \/ CallUpdateById \/ CallUpdatesById
  \/ CallFindByIDs \/ CallFindByID \/ CallFirst \/ CallFindInBatches
  \/ CallCount \/ CallExists \/ CallSum \/ CallAvg
  \/ CallFind \/ CallPluck \/ CallAll

Spec == Init /\ [][Next]_vars

(***************************************************************************)
(* Claims about the store lifecycle.                                       *)
(***************************************************************************)
SetterOps ==
  {"Columns", "Hidden", "Emit", "Unscoped", "WithTrashed", "ScopeClosure", "AddPreload",
   "SetTx"}

ExecutionOps ==
  {"Create", "Creates", "CreateInBatches", "FindByID", "FindByIDs", "First", "Find",
   "All", "Update", "Updates", "UpdateById", "UpdatesById", "Delete", "Deletes",
   "DeleteById", "Save", "Count", "Sum", "Avg", "Exists"}

Cleared(s) ==
  /\ s.columns = <<>> /\ s.hidden = <<>> /\ s.scopeClosures = <<>> /\ s.preloads = <<>>
  /\ s.unscoped = FALSE /\ s.tx = NoTx

Transient(s) == <<s.columns, s.hidden, s.scopeClosures, s.preloads, s.unscoped, s.tx>>

Lists(s) == <<s.columns, s.hidden, s.scopeClosures, s.preloads>>

\* C1: after every terminal execution call that reached its backend call, all
\* transient fields of the receiver are cleared (columns, hidden, scope
\* closures, preloads empty, unscoped false, no transaction bound).
C1_ClearedAfterExecution ==
  (call.op \in ExecutionOps /\ call.ran) => Cleared(stores[call.recv])

Applies(s, db, skipEmpty) ==
  /\ db[1].kind = "WithContext" /\ db[1].n = s.tx
  /\ \A i \in 1..Len(s.scopeClosures) :
       \E k \in 1..Len(db) : db[k].kind = "Closure" /\ db[k].query = s.scopeClosures[i]
  /\ \A i \in 1..Len(s.preloads) :
       (skipEmpty /\ s.preloads[i].name = "") \/
       \E k \in 1..Len(db) :
         /\ db[k].kind = "Preload" /\ db[k].query = s.preloads[i].name
         /\ db[k].args = s.preloads[i].args
  /\ Len(s.hidden) > 0 => \E k \in 1..Len(db) : db[k].kind = "Omit" /\ db[k].args = s.hidden
  /\ Len(s.columns) > 0 =>
       \E k \in 1..Len(db) : db[k].kind = "Select" /\ db[k].args = s.columns
  /\ s.unscoped => \E k \in 1..Len(db) : db[k].kind = "Unscoped"

\* the returned instance (after the step) carries what the receiver carried
\* (before the step), apart from the fields named in `but`
Carries(r, nr, but) ==
  LET b == stores[r]
      a == stores'[nr]
  IN /\ "columns" \in but \/ a.columns = b.columns
     /\ "hidden" \in but \/ a.hidden = b.hidden
     /\ "scopeClosures" \in but \/ a.scopeClosures = b.scopeClosures
     /\ "preloads" \in but \/ a.preloads = b.preloads
     /\ "unscoped" \in but \/ a.unscoped = b.unscoped

\* the backend calls of every terminal operation that compiles its query with
\* present, called on the instance r with no Criteria and reaching the backend
PresentedQueries(h, r) ==
  {Create(h, r).db, Creates(h, r).db, CreateInBatches(h, r).db, Delete(h, r).db,
   Deletes(h, r, <<>>).db, DeleteById(h, r).db, Updates(h, r, <<>>).db, Save(h, r).db,
   Update(h, r, <<>>).db, UpdateById(h, r).db, UpdatesById(h, r).db,
   FindByIDs(h, r, 1, FALSE).db, FindByID(h, r, FALSE).db, First(h, r, <<>>, FALSE).db,
   FindInBatches(h, r, <<>>, FALSE).db, Count(h, r, <<>>, FALSE, FALSE).db,
   Exists(h, r, <<>>, FALSE, FALSE).db, Sum(h, r, <<>>, FALSE, FALSE).db,
   Avg(h, r, <<>>, FALSE, FALSE).db, Find(h, r, <<>>, FALSE).db,
   Pluck(h, r, <<>>, FALSE).db, All(h, r, FALSE).db}

\* every setter step hands back an instance with the requested setting added
\* to the receiver's, and the next terminal operation on it applies them.
\* asStated tells whether this is asked without exception: of SetTx also when
\* a transaction is bound already, of preload requests with an empty name,
\* and of Insert.
\* the step is a call of the setter op on the instance r
Step(op, r) == call'.op = op /\ call'.recv = r

SetterCarries(asStated) ==
  LET nr == call'.ret
      a == stores'[nr]
      applied ==
        /\ \A q \in PresentedQueries(stores', nr) : Applies(a, q, ~asStated)
        /\ asStated => Applies(a, Insert(stores', nr).db, FALSE)
  IN \A r \in Instances :
       /\ \A tx \in Txs :
            Step("SetTx", r) /\ Setter("SetTx", r, SetTx(stores, r, tx)) =>
              /\ (asStated \/ stores[r].tx = NoTx) => a.tx = tx
              /\ (~asStated /\ stores[r].tx # NoTx) => (nr = r /\ a.tx = stores[r].tx)
              /\ Carries(r, nr, {}) /\ applied
       /\ Step("Unscoped", r) /\ Setter("Unscoped", r, Unscoped(stores, r)) =>
            a.unscoped /\ Carries(r, nr, {"unscoped"}) /\ applied
       /\ \A with \in BOOLEAN :
            Step("WithTrashed", r) /\ Setter("WithTrashed", r, WithTrashed(stores, r, with)) =>
              a.unscoped = with /\ Carries(r, nr, {"unscoped"}) /\ applied
       /\ \A fields \in FieldLists :
            /\ Step("Hidden", r) /\ Setter("Hidden", r, Hidden(stores, r, fields)) =>
                 /\ a.hidden = stores[r].hidden \o fields
                 /\ Carries(r, nr, {"hidden"}) /\ applied
            /\ Step("Emit", r) /\ Setter("Emit", r, Emit(stores, r, fields)) =>
                 /\ a.hidden = stores[r].hidden \o fields
                 /\ Carries(r, nr, {"hidden"}) /\ applied
            /\ Step("Columns", r) /\ Setter("Columns", r, Columns(stores, r, fields)) =>
                 /\ a.columns = stores[r].columns \o fields
                 /\ Carries(r, nr, {"columns"}) /\ applied
       /\ \A f \in Closures :
            Step("ScopeClosure", r) /\ Setter("ScopeClosure", r, ScopeClosure(stores, r, f)) =>
              /\ a.scopeClosures = Append(stores[r].scopeClosures, f)
              /\ Carries(r, nr, {"scopeClosures"}) /\ applied
       /\ \A p \in PreloadArgs :
            Step("AddPreload", r) /\ Setter("AddPreload", r, AddPreload(stores, r, p.name, p.args)) =>
              /\ a.preloads = Append(stores[r].preloads, p)
              /\ Carries(r, nr, {"preloads"}) /\ applied

C4_NoSharedState ==
  [][\A i \in Instances :
       origin[i] # 0 =>
         /\ call'.recv = i => Lists(stores'[origin[i]]) = Lists(stores[origin[i]])
         /\ call'.recv = origin[i] => Lists(stores'[i]) = Lists(stores[i])]_vars

C4_Witness ==
  /\ Len(stores) > 1 /\ origin[2] = 1
  /\ call.recv = 2 /\ call.op \in SetterOps
  /\ Len(stores[2].columns) + Len(stores[2].hidden) + Len(stores[2].preloads) > 1
  /\ Lists(stores[1]) = Lists(New("db"))

\* C21: FindByIDs called with zero ids returns an error and makes no call on
\* the backend.
C21_FindByIDsEmptyFails ==
  [][\A r \in Instances, fails \in BOOLEAN :
       (Step("FindByIDs", r) /\ Terminal("FindByIDs", r, FindByIDs(stores, r, 0, fails))) =>
         /\ FindByIDs(stores, r, 0, fails).err # ""
         /\ FindByIDs(stores, r, 0, fails).db = <<>>
         /\ ~call'.ran]_vars

C21_Witness == call.op = "FindByIDs" /\ ~call.ran /\ ~Cleared(stores[call.recv])

\* C22: SetTx on an instance that already has a bound transaction returns
\* that same instance and leaves its transaction, and every store, unchanged.
C22_SetTxFirstWins ==
  [][\A r \in Instances, tx \in Txs :
       (stores[r].tx # NoTx /\ Step("SetTx", r) /\ Setter("SetTx", r, SetTx(stores, r, tx))) =>
         /\ call'.ret = r
         /\ stores' = stores
         /\ stores'[r].tx = stores[r].tx]_vars

C22_Witness ==
  /\ call.op = "SetTx" /\ call.ret = call.recv
  /\ stores[call.recv].tx # NoTx

(***************************************************************************)
(* Compilation of a Criteria: a caller starts a Criteria, fills it with    *)
(* its mutators and hands it to Find on one of the store instances.        *)
(* criteria is <<>> while the caller has none (a nil pointer).  query      *)
(* holds the backend calls Find made for the Criteria as it stands, and is *)
(* empty while the Criteria was not handed over since its last change.     *)
(***************************************************************************)
configured == ScopeClosure(Unscoped(Hidden(Columns(<<New("db")>>, 1, <<"name">>).heap,
                                           2, <<"pwd">>).heap, 2).heap, 2, "f").heap

preloading == AddPreload(AddPreload(<<New("db")>>, 1, "Addresses", <<"x">>).heap,
                         2, "", <<>>).heap

inTx == ScopeClosure(SetTx(<<New("db")>>, 1, 1).heap, 2, "f").heap

\* the store instances a caller holds when it starts to build a Criteria
PresentStores == {configured, preloading, inTx}

\* entries of the lists and scalar settings other than the zero value
ClauseCount(c) ==
  Len(c.whereConditions) + Len(c.groupOrConditions) + Len(c.orConditions)
  + Len(c.notConditions) + Len(c.havingConditions) + Len(c.joinConditions)
  + Len(c.orders) + Len(c.preloads)
  + (IF c.limit # 0 THEN 1 ELSE 0) + (IF c.offset # 0 THEN 1 ELSE 0)
  + (IF c.page # 0 THEN 1 ELSE 0) + (IF c.group # "" THEN 1 ELSE 0)

InitPresent ==
  /\ stores \in PresentStores
  /\ origin = <<0, 1>>
  /\ call = [op |-> "New", recv |-> 0, ret |-> 1, ran |-> FALSE]
  /\ criteria = <<>>
  /\ query = <<>>
  /\ paginate = NoPaginate
  /\ extract = NoExtract
  /\ quote = NoQuote

Mutator(c) ==
  /\ Len(criteria) > 0
  /\ ClauseCount(c) <= MaxClauses
  /\ criteria' = <<c>>
  /\ query' = <<>>
  /\ call' = [op |-> "Criteria", recv |-> 0, ret |-> 0, ran |-> FALSE]
  /\ UNCHANGED <<stores, origin, paginate, extract, quote>>

CallNewCriteria ==
  /\ criteria' = <<NewCriteria>>
  /\ query' = <<>>
  /\ call' = [op |-> "Criteria", recv |-> 0, ret |-> 0, ran |-> FALSE]
  /\ UNCHANGED <<stores, origin, paginate, extract, quote>>

CallWhere == \E s \in Conds : Mutator(Where(criteria[1], s.query, s.args))

CallWhereNot == \E s \in Conds : Mutator(WhereNot(criteria[1], s.query, s.args))

CallOrWhere == \E s \in Conds : Mutator(OrWhere(criteria[1], s.query, s.args))

CallGroupOr == \E grp \in Groups : Mutator(GroupOr(criteria[1], grp))

CallOrder ==
  \E f \in OrderFields, reorder \in BOOLEAN : Mutator(Order(criteria[1], f, reorder))

CallOrderDesc == \E f \in OrderFields : Mutator(OrderDesc(criteria[1], f))

CallOrderAsc == \E f \in OrderFields : Mutator(OrderAsc(criteria[1], f))

CallLimit == \E l \in Ints : Mutator(Limit(criteria[1], l))

CallOffset == \E o \in Ints : Mutator(Offset(criteria[1], o))

CallPage == \E pg \in Ints : Mutator(Page(criteria[1], pg))

CallPerPage == \E n \in Ints : Mutator(PerPage(criteria[1], n))

CallGroup == \E q \in GroupBys : Mutator(Group(criteria[1], q))

CallHaving == \E s \in Conds : Mutator(Having(criteria[1], s.query, s.args))

CallJoins == \E s \in Conds : Mutator(Joins(criteria[1], s.query, s.args))

CallCriteriaAddPreload ==
  \E p \in PreloadArgs : Mutator(CriteriaAddPreload(criteria[1], p.name, p.args))

FindCriteria(r, fails) ==
  LET res == Find(stores, r, criteria, fails)
  IN /\ stores' = res.heap
     /\ query' = res.db
     /\ call' = [op |-> "Find", recv |-> r, ret |-> 0, ran |-> TRUE]
     /\ UNCHANGED <<origin, criteria, paginate, extract, quote>>

CallFindCriteria == \E r \in Instances, fails \in BOOLEAN : FindCriteria(r, fails)

NextPresent ==
  \/ CallNewCriteria
  \/ CallWhere \/ CallWhereNot \/ CallOrWhere \/ CallGroupOr \/ CallOrder
  \/ CallOrderDesc \/ CallOrderAsc
  \/ CallLimit \/ CallOffset \/ CallPage \/ CallPerPage \/ CallGroup
  \/ CallHaving \/ CallJoins \/ CallCriteriaAddPreload
  \/ CallFindCriteria

SpecPresent == InitPresent /\ [][NextPresent]_vars

(***************************************************************************)
(* Claims about the compilation of a Criteria.                             *)
(***************************************************************************)
ClauseKinds == {"Where", "Or", "Not", "Having", "Joins", "Order", "Offset", "Limit"}

Rank(kind) ==
  CASE kind = "Where" -> 1
    [] kind = "Or" -> 2
    [] kind = "Not" -> 3
    [] kind = "Having" -> 4
    [] kind = "Joins" -> 5
    [] kind = "Order" -> 6
    [] kind = "Offset" -> 7
    [] kind = "Limit" -> 8

OfKind(q, kind) == SelectSeq(q, LAMBDA d : d.kind = kind)

AsSpecs(calls) ==
  [i \in 1..Len(calls) |-> [query |-> calls[i].query, args |-> calls[i].args]]

NonEmptyGroups(c) == SelectSeq(c.groupOrConditions, LAMBDA g : Len(g) > 0)

\* a Criteria was handed to Find and query holds the calls made for it
Compiled == Len(criteria) > 0 /\ Len(query) > 0

\* C5: present applies the Criteria's clauses in one fixed order: the
\* groupOrConditions entries, then the whereConditions, orConditions,
\* notConditions, havingConditions, joinConditions, then the orders, the
\* offset and the limit; within each list in the order the entries were added.
C5_FixedClauseOrder ==
  Compiled =>
    LET c == criteria[1]
        cl == SelectSeq(query, LAMBDA d : d.kind \in ClauseKinds)
        wh == OfKind(query, "Where")
        g == NonEmptyGroups(c)
        ng == Len(g)
    IN /\ \A i, j \in 1..Len(cl) : i < j => Rank(cl[i].kind) <= Rank(cl[j].kind)
       /\ Len(wh) = ng + Len(c.whereConditions)
       /\ \A i \in 1..ng :
            IF Len(g[i]) = 1
            THEN wh[i].sub = <<>> /\ wh[i].query = g[i][1].query
            ELSE wh[i].sub # <<>> /\ wh[i].sub[1].query = g[i][1].query
       /\ AsSpecs(SubSeq(wh, ng + 1, Len(wh))) = c.whereConditions
       /\ AsSpecs(OfKind(query, "Or")) = c.orConditions
       /\ AsSpecs(OfKind(query, "Not")) = c.notConditions
       /\ AsSpecs(OfKind(query, "Having")) = c.havingConditions
       /\ AsSpecs(OfKind(query, "Joins")) = c.joinConditions
       /\ LET od == OfKind(query, "Order")
          IN [i \in 1..Len(od) |-> od[i].query] = c.orders

C5_Witness ==
  /\ Compiled
  /\ Len(criteria[1].groupOrConditions) = 1
  /\ Len(criteria[1].groupOrConditions[1]) = 1
  /\ Len(criteria[1].whereConditions) = 1
  /\ Len(OfKind(query, "Where")) = 2

\* C6: the store's scope closures are applied last, after the projection,
\* the soft-delete flag and every Criteria clause: up to the call that
\* executes the query, nothing but closures follows a closure.
C6_ClosuresAppliedLast ==
  Len(query) > 0 =>
    \A i, j \in 1..(Len(query) - 1) :
      (i < j /\ query[i].kind = "Closure") => query[j].kind = "Closure"

\* C7: a groupOrConditions entry with no member adds nothing, one with one
\* member is applied as a plain Where, and one with n >= 2 members is applied
\* as one Where over a sub-expression in which all n members take part.
C7_EveryGroupMemberApplied ==
  Compiled =>
    LET c == criteria[1]
        wh == OfKind(query, "Where")
        g == NonEmptyGroups(c)
    IN /\ Len(wh) = Len(g) + Len(c.whereConditions)
       /\ \A i \in 1..Len(g) :
            IF Len(g[i]) = 1
            THEN wh[i].sub = <<>> /\ AsSpecs(<<wh[i]>>) = g[i]
            ELSE AsSpecs(wh[i].sub) = g[i]

\* C8: an offset clause is applied exactly when GetOffset() > 0, a limit
\* clause carrying the Criteria's limit exactly when limit > 0 or
\* GetOffset() > 0; no compiled query has an offset without a limit clause.
C8_OffsetLimit ==
  Compiled =>
    LET c == criteria[1]
        off == OfKind(query, "Offset")
        lim == OfKind(query, "Limit")
    IN /\ Len(off) = (IF GetOffset(c) > 0 THEN 1 ELSE 0)
       /\ Len(off) = 1 => off[1].n = GetOffset(c)
       /\ Len(lim) = (IF c.limit > 0 \/ GetOffset(c) > 0 THEN 1 ELSE 0)
       /\ Len(lim) = 1 => lim[1].n = c.limit
       /\ Len(off) > 0 => Len(lim) > 0

C8_Witness ==
  /\ Compiled
  /\ criteria[1].limit = 0 /\ criteria[1].offset > 0
  /\ Len(OfKind(query, "Offset")) = 1
  /\ Len(OfKind(query, "Limit")) = 1

\* C9: when the Criteria has a group-by expression set through Group(q), a
\* GROUP BY q clause is applied, after the predicate, having and join clauses
\* and before the orders.
C9_GroupByApplied ==
  (Compiled /\ criteria[1].group # "") =>
    \E k \in 1..Len(query) :
      /\ query[k].kind = "Group" /\ query[k].query = criteria[1].group
      /\ \A i \in 1..Len(query) :
           /\ (query[i].kind \in {"Where", "Or", "Not", "Having", "Joins"}) => i < k
           /\ (query[i].kind = "Order") => k < i

\* C10: every preload request with a name that was added to the Criteria
\* through Criteria.AddPreload is applied to the compiled query, also when the
\* store itself carries no preload request.
C10_CriteriaPreloadsApplied ==
  Compiled =>
    \A i \in 1..Len(criteria[1].preloads) :
      criteria[1].preloads[i].name # "" =>
        \E k \in 1..Len(query) :
          /\ query[k].kind = "Preload"
          /\ query[k].query = criteria[1].preloads[i].name
          /\ query[k].args = criteria[1].preloads[i].args

\* C18: GetOffset() is the explicit offset when that is positive, whatever
\* page and limit are, and limit * (page - 1) otherwise.
C18_GetOffset ==
  Len(criteria) > 0 =>
    LET c == criteria[1]
    IN GetOffset(c) = (IF c.offset > 0 THEN c.offset ELSE c.limit * (c.page - 1))

C18_Witness ==
  /\ Len(criteria) > 0
  /\ criteria[1].offset > 0 /\ criteria[1].limit > 0
  /\ GetOffset(criteria[1]) = criteria[1].offset
  /\ GetOffset(criteria[1]) # criteria[1].limit * (criteria[1].page - 1)

\* C19: Page(p) stores p when p >= 1 and 1 when p < 1, and once the page of
\* a Criteria is at least 1 every mutator leaves it at least 1.
C19_PageAtLeastOne ==
  [][/\ \A p \in Ints :
          (Len(criteria) > 0 /\ Mutator(Page(criteria[1], p))) =>
            criteria'[1].page = (IF p >= 1 THEN p ELSE 1)
     /\ (Len(criteria) > 0 /\ criteria[1].page >= 1 /\ ~CallNewCriteria) =>
          (Len(criteria') > 0 /\ criteria'[1].page >= 1)]_vars

C19_Witness ==
  /\ Len(criteria) > 0
  /\ criteria[1].page = 1
  /\ Len(criteria[1].whereConditions) = 1

Aggregate(op, r, res) ==
  /\ Len(res.heap[r].preloads) <= MaxPreloads
  /\ stores' = res.heap
  /\ query' = res.db
  /\ call' = [op |-> op, recv |-> r, ret |-> 0, ran |-> Len(res.db) > 0]
  /\ UNCHANGED <<origin, criteria, paginate, extract, quote>>

CallCountCriteria ==
  \E r \in Instances, copyFails \in BOOLEAN, fails \in BOOLEAN :
    /\ copyFails => Len(criteria) = 0
    /\ Aggregate("Count", r, Count(stores, r, criteria, copyFails, fails))

CallExistsCriteria ==
  \E r \in Instances, copyFails \in BOOLEAN, fails \in BOOLEAN :
    /\ copyFails => Len(criteria) = 0
    /\ Aggregate("Exists", r, Exists(stores, r, criteria, copyFails, fails))

CallSumCriteria ==
  \E r \in Instances, copyFails \in BOOLEAN, fails \in BOOLEAN :
    /\ copyFails => Len(criteria) = 0
    /\ Aggregate("Sum", r, Sum(stores, r, criteria, copyFails, fails))

CallAvgCriteria ==
  \E r \in Instances, copyFails \in BOOLEAN, fails \in BOOLEAN :
    /\ copyFails => Len(criteria) = 0
    /\ Aggregate("Avg", r, Avg(stores, r, criteria, copyFails, fails))

NextAggregate ==
  \/ CallNewCriteria
  \/ CallWhere \/ CallWhereNot \/ CallOrWhere \/ CallGroupOr \/ CallOrder
  \/ CallOrderDesc \/ CallOrderAsc
  \/ CallLimit \/ CallOffset \/ CallPage \/ CallPerPage \/ CallGroup
  \/ CallHaving \/ CallJoins \/ CallCriteriaAddPreload
  \/ CallCountCriteria \/ CallExistsCriteria \/ CallSumCriteria \/ CallAvgCriteria

SpecAggregate == InitPresent /\ [][NextAggregate]_vars

(***************************************************************************)
(* Claims about the aggregates.                                            *)
(***************************************************************************)
AggregateOps == {"Count", "Sum", "Avg"}

MaxRows == 3

\* PerPage(50), the default of Paginate
DefaultPerPage == 50

\* the table of the pagination test
TestRows == 15

RowCounts == 0..MaxRows \cup {TestRows}

Max(a, b) == IF a > b THEN a ELSE b

Min(a, b) == IF a < b THEN a ELSE b

\* a plausible bug: the per-page value is left as given
normalizePageOnly(c) == IF GetPage(c) < 1 THEN Page(c, 1) ELSE c

\* the Criteria after the two guards at the head of Paginate
normalize(c) ==
  LET paged == IF GetPage(c) < 1 THEN Page(c, 1) ELSE c
  IN IF GetPerPage(paged) < 1 THEN PerPage(paged, DefaultPerPage) ELSE paged

\* the value the last call of a kind carries, or none when no call was made
LastOf(db, kind, none) ==
  LET calls == OfKind(db, kind)
  IN IF calls = <<>> THEN none ELSE calls[Len(calls)].n

\* rows a SELECT returns from n matching rows: OFFSET skips, LIMIT caps
ExecFind(db, n) ==
  LET skipped == Max(0, n - LastOf(db, "Offset", 0))
      limit == LastOf(db, "Limit", -1)
  IN IF limit >= 0 THEN Min(limit, skipped) ELSE skipped

\* the value SELECT count(*) scans: its one result row unless skipped or cut
ExecCount(db, n) ==
  IF LastOf(db, "Offset", 0) > 0 \/ LastOf(db, "Limit", -1) = 0 THEN 0 ELSE n

NoTask == [pc |-> "none", db |-> <<>>, value |-> 0, err |-> ""]

Pagination(total, c, items) ==
  [Total |-> total, Page |-> GetPage(c), PerPage |-> GetPerPage(c), Items |-> items]

\* a plausible bug: the join returns as soon as one task has finished
WaitAny(p) == p.count.pc = "done" \/ p.find.pc = "done"

\* eg.Wait() returns once every function passed to Go has returned
Wait(p) == p.count.pc = "done" /\ p.find.pc = "done"

\* a plausible bug: the Pagination is built whatever Wait returned
ReturnedAlways(p, c) ==
  [result |-> <<Pagination(p.count.value, c, p.find.value)>>, err |-> p.first]

\* what Paginate returns after Wait: nil and the first error, or the Pagination
Returned(p, c) ==
  IF p.first # ""
  THEN [result |-> <<>>, err |-> p.first]
  ELSE [result |-> <<Pagination(p.count.value, c, p.find.value)>>, err |-> ""]

\* a task that returned an error is the group's error if it is the first
FirstErr(p, err) == IF p.first = "" THEN err ELSE p.first

PaginateStores == {<<New("db")>>, preloading, inTx}

PaginateBases ==
  {NewCriteria,
   CriteriaAddPreload(OrderDesc(Where(NewCriteria, "a = ?", <<"1">>), "name"), "Emails", <<>>)}

PaginatePaged == PaginateBases \cup {Page(b, pg) : b \in PaginateBases, pg \in Ints}

\* the Criteria a caller hands to Paginate: nil, or one built with the mutators
PaginateCriteria ==
  {<<>>} \cup {<<Offset(PerPage(b, k), o)>> : b \in PaginatePaged, k \in Ints, o \in Ints}
              \cup {<<b>> : b \in PaginatePaged}

InitPaginate ==
  /\ stores \in PaginateStores
  /\ origin = [i \in 1..Len(stores) |-> 0]
  /\ call = [op |-> "New", recv |-> 0, ret |-> 1, ran |-> FALSE]
  /\ criteria \in PaginateCriteria
  /\ query = <<>>
  /\ paginate = [pc |-> "idle", recv |-> 0, rows |-> 0, given |-> <<>>, clean |-> FALSE,
                 config |-> <<>>,
                 count |-> NoTask, find |-> NoTask, first |-> "",
                 result |-> <<>>, err |-> ""]
  /\ extract = NoExtract
  /\ quote = NoQuote

\* Paginate is entered: the guards run on the caller's Criteria (a nil
\* Criteria panics in GetPage), then both tasks are started
PaginateCall ==
  \E r \in Instances, n \in RowCounts :
    /\ paginate.pc = "idle"
    /\ call' = [op |-> "Paginate", recv |-> r, ret |-> 0, ran |-> FALSE]
    /\ IF Len(criteria) = 0
       THEN /\ paginate' = [paginate EXCEPT !.pc = "panicked", !.recv = r, !.rows = n,
                                            !.config = <<stores[r]>>]
            /\ UNCHANGED criteria
       ELSE /\ criteria' = <<normalize(criteria[1])>>
            /\ paginate' = [paginate EXCEPT !.pc = "wait", !.recv = r, !.rows = n,
                                            !.given = criteria,
                                            !.clean = Cleared(stores[r]),
                                            !.config = <<stores[r]>>,
                                            !.count = [NoTask EXCEPT !.pc = "present"],
                                            !.find = [NoTask EXCEPT !.pc = "present"]]
    /\ UNCHANGED <<stores, origin, query, extract, quote>>

\* the Count task copies the Criteria, strips it and compiles the query
CountPresent ==
  /\ paginate.pc = "wait" /\ paginate.count.pc = "present"
  /\ LET res == Count(stores, paginate.recv, criteria, FALSE, FALSE)
     IN /\ stores' = res.heap
        /\ paginate' = [paginate EXCEPT !.count.pc = "exec", !.count.db = res.db]
  /\ UNCHANGED <<origin, call, criteria, query, extract, quote>>

\* the backend answers the Count task
CountExec ==
  \E fails \in BOOLEAN :
    /\ paginate.pc = "wait" /\ paginate.count.pc = "exec"
    /\ paginate' =
         [paginate EXCEPT
            !.count.pc = "done",
            !.count.err = BackendErr(fails),
            !.count.value = IF fails THEN 0 ELSE ExecCount(paginate.count.db, paginate.rows),
            !.first = IF fails THEN FirstErr(paginate, "count") ELSE @]
    /\ UNCHANGED <<stores, origin, call, criteria, query, extract, quote>>

\* the Find task compiles the query
FindPresent ==
  /\ paginate.pc = "wait" /\ paginate.find.pc = "present"
  /\ LET res == present(stores, paginate.recv, criteria)
     IN /\ stores' = res.heap
        /\ query' = res.db \o Finish("Find")
  /\ paginate' = [paginate EXCEPT !.find.pc = "exec", !.find.db = query']
  /\ UNCHANGED <<origin, call, criteria, extract, quote>>

\* the backend answers the Find task
FindExec ==
  \E fails \in BOOLEAN :
    /\ paginate.pc = "wait" /\ paginate.find.pc = "exec"
    /\ paginate' =
         [paginate EXCEPT
            !.find.pc = "reset",
            !.find.err = BackendErr(fails),
            !.find.value = IF fails THEN 0 ELSE ExecFind(paginate.find.db, paginate.rows)]
    /\ UNCHANGED <<stores, origin, call, criteria, query, extract, quote>>

\* the Find task resets the receiver and returns
FindReset ==
  /\ paginate.pc = "wait" /\ paginate.find.pc = "reset"
  /\ stores' = reset(stores, paginate.recv)
  /\ paginate' =
       [paginate EXCEPT
          !.find.pc = "done",
          !.first = IF paginate.find.err # "" THEN FirstErr(paginate, "find") ELSE @]
  /\ UNCHANGED <<origin, call, criteria, query, extract, quote>>

\* Wait returns and Paginate hands its result to the caller
PaginateReturn ==
  /\ paginate.pc = "wait"
  /\ Wait(paginate)
  /\ LET ret == Returned(paginate, criteria[1])
     IN paginate' = [paginate EXCEPT !.pc = "returned", !.result = ret.result,
                                     !.err = ret.err]
  /\ call' = [call EXCEPT !.ran = TRUE]
  /\ UNCHANGED <<stores, origin, criteria, query, extract, quote>>

Tasks == CountPresent \/ CountExec \/ FindPresent \/ FindExec \/ FindReset

NextPaginate == PaginateCall \/ Tasks \/ PaginateReturn

\* a started goroutine is scheduled and a backend call returns; the caller's
\* goroutine runs once Wait is released
SpecPaginate ==
  /\ InitPaginate
  /\ [][NextPaginate]_vars
  /\ WF_vars(CountPresent) /\ WF_vars(CountExec)
  /\ WF_vars(FindPresent) /\ WF_vars(FindExec) /\ WF_vars(FindReset)
  /\ WF_vars(PaginateReturn)

(***************************************************************************)
(* Claims about Paginate.  paginate.given is the Criteria as the caller    *)
(* passed it, paginate.clean whether the receiver had no transient         *)
(* configuration when Paginate was entered, paginate.config the receiver   *)
(* as it was then.                                                         *)
(***************************************************************************)
Succeeded == paginate.pc = "returned" /\ paginate.err = ""

\* C13: the Pagination of a successful Paginate carries the normalised page
\* (a page below 1 becomes 1) and per-page (a per-page below 1 becomes 50);
\* with per-page below 1 on the first page of a table of at most 50 rows,
\* such as the 15 rows of the test, every row is in Items.
C13_PaginateNormalizes ==
  Succeeded =>
    LET g == paginate.given[1]
        res == paginate.result[1]
    IN /\ res.Page = (IF g.page < 1 THEN 1 ELSE g.page)
       /\ res.PerPage = (IF g.limit < 1 THEN DefaultPerPage ELSE g.limit)
       /\ criteria[1].page = res.Page /\ criteria[1].limit = res.PerPage
       /\ (g.limit < 1 /\ g.page <= 1 /\ g.offset = 0 /\ paginate.rows <= DefaultPerPage)
            => res.Items = paginate.rows

C13_Witness ==
  /\ Succeeded
  /\ paginate.given[1].limit = 0 /\ paginate.given[1].page = 1
  /\ paginate.rows = TestRows
  /\ paginate.result[1].Items = TestRows /\ paginate.result[1].PerPage = DefaultPerPage

\* C14 as stated: on a store without transient configuration and N matching
\* rows, Paginate with page p >= 1 and per-page k >= 1 returns Total = N and
\* Items of length max(0, min(k, N - k*(p-1))).
C14_ItemsByPage ==
  (Succeeded /\ paginate.clean /\ paginate.given[1].page >= 1 /\ paginate.given[1].limit >= 1) =>
    LET g == paginate.given[1]
        res == paginate.result[1]
    IN /\ res.Total = paginate.rows
       /\ res.Items = Max(0, Min(g.limit, paginate.rows - g.limit * (g.page - 1)))

\* C14 amended: the rows skipped are GetOffset(): an explicit positive offset
\* of the Criteria if there is one, k*(p-1) otherwise.
C14_ItemsByOffset ==
  (Succeeded /\ paginate.clean /\ paginate.given[1].page >= 1 /\ paginate.given[1].limit >= 1) =>
    LET g == paginate.given[1]
        res == paginate.result[1]
        skip == IF g.offset > 0 THEN g.offset ELSE g.limit * (g.page - 1)
    IN /\ res.Total = paginate.rows
       /\ res.Items = Max(0, Min(g.limit, paginate.rows - skip))

\* the second page of three rows, two per page: one item, total three
C14_Witness ==
  /\ Succeeded /\ paginate.clean
  /\ paginate.given[1].page = 2 /\ paginate.given[1].limit = 2 /\ paginate.given[1].offset = 0
  /\ paginate.rows = 3
  /\ paginate.result[1].Total = 3 /\ paginate.result[1].Items = 1

\* C15: when the Count task or the Find task failed, Paginate returns the
\* error of a failed task and a nil Pagination; a Pagination is never
\* returned along with an error.
C15_ErrorMeansNoPagination ==
  paginate.pc = "returned" =>
    /\ (paginate.count.err # "" \/ paginate.find.err # "") =>
         /\ paginate.result = <<>>
         /\ \/ paginate.err = "count" /\ paginate.count.err # ""
            \/ paginate.err = "find" /\ paginate.find.err # ""
    /\ paginate.err # "" => paginate.result = <<>>
    /\ paginate.result # <<>> => paginate.err = ""

C15_Witness ==
  /\ paginate.pc = "returned"
  /\ paginate.find.err # "" /\ paginate.count.err = ""
  /\ paginate.err = "find" /\ paginate.result = <<>>

\* C16: once a task of Paginate has failed, the join returns without waiting
\* for the other task: Paginate can return as soon as an error is observed.
C16_JoinReturnsOnFirstError ==
  (paginate.pc = "wait" /\ paginate.first # "") => ENABLED PaginateReturn

\* C17: Paginate starts one Count task and one Find task; once started it
\* eventually returns, under fair scheduling of the tasks, and when it has
\* returned both tasks have finished.
C17_PaginateTerminates ==
  /\ [](paginate.pc \in {"wait", "returned"} =>
          /\ paginate.count.pc # "none" /\ paginate.find.pc # "none"
          /\ paginate.pc = "returned" =>
               paginate.count.pc = "done" /\ paginate.find.pc = "done")
  /\ (paginate.pc = "wait" ~> paginate.pc = "returned")

C17_Witness ==
  /\ Succeeded
  /\ paginate.count.pc = "done" /\ paginate.find.pc = "done"
  /\ paginate.result # <<>>

(***************************************************************************)
(* criteria.go: ExtractCriteria and buildConditionSpec, with the functions *)
(* of strings, strconv and utils.go they call.  A Go string is a string;   *)
(* a value of type any is a record of its dynamic type and its value; a    *)
(* nil any and a nil pointer are the empty sequence.                       *)
(***************************************************************************)
Char(s, i) == SubSeq(s, i, i)

\* the pieces of s from position start on, the scan being at position i
RECURSIVE SplitFrom(_, _, _, _)
SplitFrom(s, sep, start, i) ==
  IF i > Len(s)
  THEN <<SubSeq(s, start, Len(s))>>
  ELSE IF Char(s, i) = sep
       THEN <<SubSeq(s, start, i - 1)>> \o SplitFrom(s, sep, i + 1, i + 1)
       ELSE SplitFrom(s, sep, start, i + 1)

\* strings.Split(s, sep) for a separator of one character
Split(s, sep) == SplitFrom(s, sep, 1, 1)

\* strings.TrimRight(s, cutset)
RECURSIVE TrimRight(_, _)
TrimRight(s, cutset) ==
  IF Len(s) > 0 /\ Char(s, Len(s)) \in cutset
  THEN TrimRight(SubSeq(s, 1, Len(s) - 1), cutset)
  ELSE s

RECURSIVE TrimLeft(_, _)
TrimLeft(s, cutset) ==
  IF Len(s) > 0 /\ Char(s, 1) \in cutset
  THEN TrimLeft(SubSeq(s, 2, Len(s)), cutset)
  ELSE s

\* strings.TrimSpace(s)
TrimSpace(s) == TrimLeft(TrimRight(s, {" "}), {" "})

\* strings.HasSuffix(s, suffix) for a suffix of one character
HasSuffix(s, suffix) == Len(s) > 0 /\ Char(s, Len(s)) = suffix

Digits == <<"0", "1", "2", "3", "4", "5", "6", "7", "8", "9">>

IsDigit(ch) == \E d \in 1..Len(Digits) : Digits[d] = ch

DigitValue(ch) == (CHOOSE d \in 1..Len(Digits) : Digits[d] = ch) - 1

RECURSIVE ParseDigits(_, _)
ParseDigits(s, acc) ==
  IF Len(s) = 0 THEN acc
  ELSE ParseDigits(SubSeq(s, 2, Len(s)), 10 * acc + DigitValue(Char(s, 1)))

\* strconv.Atoi(s): an optional sign, then one or more decimal digits
Atoi(s) ==
  LET signed == Len(s) > 0 /\ Char(s, 1) \in {"+", "-"}
      digits == IF signed THEN SubSeq(s, 2, Len(s)) ELSE s
  IN IF Len(digits) = 0 \/ \E i \in 1..Len(digits) : ~IsDigit(Char(digits, i))
     THEN [v |-> 0, err |-> "invalid syntax"]
     ELSE [v |-> IF signed /\ Char(s, 1) = "-"
                 THEN 0 - ParseDigits(digits, 0) ELSE ParseDigits(digits, 0),
           err |-> ""]

RECURSIVE FormatDigits(_)
FormatDigits(n) ==
  IF n < 10 THEN Digits[n + 1] ELSE FormatDigits(n \div 10) \o Digits[(n % 10) + 1]

\* strconv.Itoa(n)
Itoa(n) == IF n < 0 THEN "-" \o FormatDigits(0 - n) ELSE FormatDigits(n)

\* values of type any: the dynamic type, and the value in the component of
\* that type (n an int, s a string, xs a []int whose nil is <<>>)
IntValue(n) == [type |-> "int", n |-> n, s |-> "", xs |-> <<>>]

StringValue(s) == [type |-> "string", n |-> 0, s |-> s, xs |-> <<>>]

SliceValue(xs) == [type |-> "[]int", n |-> 0, s |-> "", xs |-> xs]

\* reflect.Value.IsZero
IsZero(val) ==
  CASE val.type = "int" -> val.n = 0
    [] val.type = "string" -> val.s = ""
    [] OTHER -> val.xs = <<>>

\* utils.go AnyToString, on the dynamic types above
AnyToString(val) ==
  CASE val.type = "int" -> [v |-> Itoa(val.n), err |-> ""]
    [] val.type = "string" -> [v |-> val.s, err |-> ""]
    [] OTHER -> [v |-> "", err |-> "convert value type error"]

\* utils.go AnyToInt, on the dynamic types above
AnyToInt(val) ==
  CASE val.type = "int" -> [v |-> val.n, err |-> ""]
    [] val.type = "string" -> Atoi(TrimSpace(val.s))
    [] OTHER -> [v |-> 0, err |-> "convert value type error"]

conditionMapping ==
  [op \in {"eq", "neq", "gt", "gte", "lt", "lte"} |->
     CASE op = "eq" -> "="
       [] op = "neq" -> "<>"
       [] op = "gt" -> ">"
       [] op = "gte" -> ">="
       [] op = "lt" -> "<"
       [] op = "lte" -> "<="]

valueStringOperator == {"like", "llike", "rlike", "sort"}

\* the zero conditionSpec: query is a nil any
EmptySpec == [query |-> <<>>, args |-> <<>>, err |-> ""]

\* a plausible bug: sort is treated as one more like-operator
buildConditionSpecSortAsLike(criteriaOperator, field, fieldValue) ==
  IF criteriaOperator \in DOMAIN conditionMapping
  THEN [query |-> <<field \o " " \o conditionMapping[criteriaOperator] \o " ?">>,
        args |-> <<fieldValue>>, err |-> ""]
  ELSE IF criteriaOperator \in valueStringOperator
       THEN LET value == AnyToString(fieldValue)
            IN IF value.err # ""
               THEN [EmptySpec EXCEPT !.err = value.err]
               ELSE [query |-> <<field \o " like ?">>,
                     args |-> <<StringValue("%" \o value.v \o "%")>>, err |-> ""]
       ELSE EmptySpec

\* a plausible bug: an operator that is not known is reported
buildConditionSpecStrict(criteriaOperator, field, fieldValue) ==
  IF criteriaOperator \in DOMAIN conditionMapping
  THEN [query |-> <<field \o " " \o conditionMapping[criteriaOperator] \o " ?">>,
        args |-> <<fieldValue>>, err |-> ""]
  ELSE [EmptySpec EXCEPT !.err = "unknown operator"]

\* a plausible bug: the wildcard of llike and rlike on the wrong side
buildConditionSpecSwapped(criteriaOperator, field, fieldValue) ==
  IF criteriaOperator \in DOMAIN conditionMapping
  THEN [query |-> <<field \o " " \o conditionMapping[criteriaOperator] \o " ?">>,
        args |-> <<fieldValue>>, err |-> ""]
  ELSE IF criteriaOperator \in valueStringOperator
       THEN LET value == AnyToString(fieldValue)
            IN IF value.err # ""
               THEN [EmptySpec EXCEPT !.err = value.err]
               ELSE CASE criteriaOperator = "like" ->
                           [query |-> <<field \o " like ?">>,
                            args |-> <<StringValue("%" \o value.v \o "%")>>, err |-> ""]
                      [] criteriaOperator = "llike" ->
                           [query |-> <<field \o " like ?">>,
                            args |-> <<StringValue(value.v \o "%")>>, err |-> ""]
                      [] criteriaOperator = "rlike" ->
                           [query |-> <<field \o " like ?">>,
                            args |-> <<StringValue("%" \o value.v)>>, err |-> ""]
                      [] OTHER -> EmptySpec
       ELSE EmptySpec

buildConditionSpec(criteriaOperator, field, fieldValue) ==
  IF criteriaOperator \in DOMAIN conditionMapping
  THEN [query |-> <<field \o " " \o conditionMapping[criteriaOperator] \o " ?">>,
        args |-> <<fieldValue>>, err |-> ""]
  ELSE IF criteriaOperator \in valueStringOperator
       THEN LET value == AnyToString(fieldValue)
            IN IF value.err # ""
               THEN [EmptySpec EXCEPT !.err = value.err]
               ELSE CASE criteriaOperator = "like" ->
                           [query |-> <<field \o " like ?">>,
                            args |-> <<StringValue("%" \o value.v \o "%")>>, err |-> ""]
                      [] criteriaOperator = "llike" ->
                           [query |-> <<field \o " like ?">>,
                            args |-> <<StringValue("%" \o value.v)>>, err |-> ""]
                      [] criteriaOperator = "rlike" ->
                           [query |-> <<field \o " like ?">>,
                            args |-> <<StringValue(value.v \o "%")>>, err |-> ""]
                      [] OTHER -> EmptySpec
       ELSE EmptySpec

\* a plausible bug: the sign of the direction read the wrong way round
RECURSIVE extractOrdersInverted(_, _)
extractOrdersInverted(c, orders) ==
  IF orders = <<>> THEN c
  ELSE extractOrdersInverted(Order(c, TrimSpace(TrimRight(Head(orders), {"+", "-"})),
                                   HasSuffix(Head(orders), "+")),
                             Tail(orders))

\* the loop over the comma-separated parts of a sort value
RECURSIVE extractOrders(_, _)
extractOrders(c, orders) ==
  IF orders = <<>> THEN c
  ELSE extractOrders(Order(c, TrimSpace(TrimRight(Head(orders), {"+", "-"})),
                           HasSuffix(Head(orders), "-")),
                     Tail(orders))

\* the switch on the operator: page, per_page, offset, limit and sort
extractMeta(c, criteriaOperator, fieldValue) ==
  LET n == AnyToInt(fieldValue)
      str == AnyToString(fieldValue)
  IN CASE criteriaOperator = "per_page" ->
            IF n.err # "" THEN [c |-> c, err |-> n.err] ELSE [c |-> PerPage(c, n.v), err |-> ""]
       [] criteriaOperator = "page" ->
            IF n.err # "" THEN [c |-> c, err |-> n.err] ELSE [c |-> Page(c, n.v), err |-> ""]
       [] criteriaOperator = "offset" ->
            IF n.err # "" THEN [c |-> c, err |-> n.err] ELSE [c |-> Offset(c, n.v), err |-> ""]
       [] criteriaOperator = "limit" ->
            IF n.err # "" THEN [c |-> c, err |-> n.err] ELSE [c |-> Limit(c, n.v), err |-> ""]
       [] criteriaOperator = "sort" ->
            IF str.err # "" THEN [c |-> c, err |-> str.err]
            ELSE [c |-> extractOrders(c, Split(str.v, ",")), err |-> ""]
       [] OTHER -> [c |-> c, err |-> ""]

\* the loop over the target fields of a tag naming several
RECURSIVE extractGroup(_, _, _, _)
extractGroup(criteriaOperator, fields, fieldValue, groupSpec) ==
  IF fields = <<>> THEN [group |-> groupSpec, err |-> ""]
  ELSE LET wc == buildConditionSpec(criteriaOperator, Head(fields), fieldValue)
       IN IF wc.err # "" THEN [group |-> <<>>, err |-> wc.err]
          ELSE extractGroup(criteriaOperator, Tail(fields), fieldValue,
                            IF wc.query # <<>>
                            THEN Append(groupSpec, [query |-> wc.query[1], args |-> wc.args])
                            ELSE groupSpec)

\* the predicate of one tagged field with a non-zero value
extractPredicate(c, target, criteriaOperator, fieldValue) ==
  LET fields == Split(target, ",")
  IN IF Len(fields) > 1
     THEN LET g == extractGroup(criteriaOperator, fields, fieldValue, <<>>)
          IN IF g.err # "" THEN [c |-> c, err |-> g.err]
             ELSE [c |-> IF Len(g.group) > 0 THEN GroupOr(c, g.group) ELSE c, err |-> ""]
     ELSE LET wc == buildConditionSpec(criteriaOperator, target, fieldValue)
          IN IF wc.err # "" THEN [c |-> c, err |-> wc.err]
             ELSE [c |-> IF wc.query # <<>> THEN Where(c, wc.query[1], wc.args) ELSE c,
                   err |-> ""]

\* one iteration of the loop over the struct's fields
extractField(c, sf) ==
  IF IsZero(sf.value) THEN [c |-> c, err |-> ""]
  ELSE IF sf.tag = "" THEN [c |-> c, err |-> ""]
  ELSE LET criteriaOptions == Split(sf.tag, ":")
       IN IF Len(criteriaOptions) # 2
          THEN [c |-> c, err |-> "criteria condition tag error"]
          ELSE LET meta == extractMeta(c, criteriaOptions[2], sf.value)
               IN IF meta.err # "" THEN meta
                  ELSE extractPredicate(meta.c, criteriaOptions[1], criteriaOptions[2], sf.value)

RECURSIVE extractFields(_, _)
extractFields(c, fields) ==
  IF fields = <<>> THEN [ret |-> <<c>>, err |-> ""]
  ELSE LET step == extractField(c, Head(fields))
       IN IF step.err # "" THEN [ret |-> <<>>, err |-> step.err]
          ELSE extractFields(step.c, Tail(fields))

\* reflect.TypeOf(source).Kind()
Kind(source) ==
  CASE source.kind \in {"ptr", "nilptr"} -> "ptr"
    [] source.kind = "struct" -> "struct"
    [] OTHER -> "string"

\* a plausible bug: a pointer is followed to the struct it points to
ExtractCriteriaDeref(source) ==
  IF source.kind = "nil" THEN [ret |-> <<>>, err |-> ""]
  ELSE IF source.kind \notin {"struct", "ptr"}
       THEN [ret |-> <<>>, err |-> "extract source type must be a Struct"]
       ELSE extractFields(NewCriteria, source.fields)

\* ret is the *Criteria returned: <<>> is nil
ExtractCriteria(source) ==
  IF source.kind = "nil" THEN [ret |-> <<>>, err |-> ""]
  ELSE IF Kind(source) # "struct"
       THEN [ret |-> <<>>, err |-> "extract source type must be a Struct"]
       ELSE extractFields(NewCriteria, source.fields)

(***************************************************************************)
(* Extraction: a caller declares a struct field by field (tag and value),  *)
(* may take its address, or picks a source that is no struct, and hands it *)
(* to ExtractCriteria.  extract holds the source, whether the call was     *)
(* made and the error it returned; criteria holds the *Criteria returned.  *)
(***************************************************************************)
\* fields of a source struct
MaxFields == 2

Tags == {"", "id:eq", "name,nickname:like", "email:llike", "c:rlike", "ids:in", "x:unknown",
         "-:page", "-:per_page", "-:offset", "-:limit", "-:sort", "badtag", "a:b:c"}

Values == {IntValue(0), IntValue(2), StringValue("bar"), StringValue("name+,age-"),
           SliceValue(<<1>>)}

InitExtract ==
  /\ stores = <<New("db")>>
  /\ origin = <<0>>
  /\ call = [op |-> "New", recv |-> 0, ret |-> 1, ran |-> FALSE]
  /\ criteria = <<>>
  /\ query = <<>>
  /\ paginate = NoPaginate
  /\ extract = [NoExtract EXCEPT !.source.kind = "struct"]
  /\ quote = NoQuote

DeclareField ==
  \E tag \in Tags, value \in Values :
    /\ ~extract.called
    /\ extract.source.kind = "struct"
    /\ Len(extract.source.fields) < MaxFields
    /\ extract' = [extract EXCEPT !.source.fields = Append(@, [tag |-> tag, value |-> value])]
    /\ UNCHANGED <<stores, origin, call, criteria, query, paginate, quote>>

\* &s
TakeAddress ==
  /\ ~extract.called
  /\ extract.source.kind = "struct"
  /\ extract' = [extract EXCEPT !.source.kind = "ptr"]
  /\ UNCHANGED <<stores, origin, call, criteria, query, paginate, quote>>

\* nil, a nil pointer to a struct type, or a value that is no struct
OtherSource ==
  \E kind \in {"nil", "nilptr", "other"} :
    /\ ~extract.called
    /\ extract.source = [kind |-> "struct", fields |-> <<>>]
    /\ extract' = [extract EXCEPT !.source.kind = kind]
    /\ UNCHANGED <<stores, origin, call, criteria, query, paginate, quote>>

CallExtractCriteria ==
  /\ ~extract.called
  /\ LET res == ExtractCriteria(extract.source)
     IN /\ criteria' = res.ret
        /\ extract' = [extract EXCEPT !.called = TRUE, !.err = res.err]
  /\ call' = [op |-> "ExtractCriteria", recv |-> 0, ret |-> 0, ran |-> FALSE]
  /\ UNCHANGED <<stores, origin, query, paginate, quote>>

NextExtract == DeclareField \/ TakeAddress \/ OtherSource \/ CallExtractCriteria

SpecExtract == InitExtract /\ [][NextExtract]_vars

(***************************************************************************)
(* Claims about ExtractCriteria.                                           *)
(***************************************************************************)
Extracted == extract.called

\* the tag of the field splits on ':' into exactly two parts
WellFormed(sf) == Len(Split(sf.tag, ":")) = 2

Operator(sf) == Split(sf.tag, ":")[2]

Targets(sf) == Split(Split(sf.tag, ":")[1], ",")

\* the field is looked at by ExtractCriteria: tagged, with a non-zero value
Live(sf) == sf.tag # "" /\ ~IsZero(sf.value)

MetaOperators == {"page", "per_page", "offset", "limit", "sort"}

\* the operators of the documented tag list that build a predicate
ComparisonSymbols ==
  [op \in {"eq", "neq", "gt", "gte", "lt", "lte", "in"} |->
     CASE op = "eq" -> "="
       [] op = "neq" -> "<>"
       [] op = "gt" -> ">"
       [] op = "gte" -> ">="
       [] op = "lt" -> "<"
       [] op = "lte" -> "<="
       [] op = "in" -> "IN"]

PredicateOperators == DOMAIN ComparisonSymbols \cup {"like", "llike", "rlike"}

\* a like-operator is given a value AnyToString converts
Convertible(sf) ==
  Operator(sf) \in {"like", "llike", "rlike"} => AnyToString(sf.value).err = ""

\* the predicates of a Criteria
Predicates(c) ==
  <<c.whereConditions, c.groupOrConditions, c.orConditions, c.notConditions,
    c.havingConditions, c.joinConditions>>

\* the source struct without the fields that satisfy drop
Without(source, drop(_)) ==
  [source EXCEPT !.fields = SelectSeq(@, LAMBDA sf : ~drop(sf))]

\* C23: ExtractCriteria fails with an error and returns no Criteria when its
\* source is nil, a nil pointer, or not a struct.
C23_InvalidSourceFails ==
  (Extracted /\ extract.source.kind \in {"nil", "nilptr", "other"}) =>
    extract.err # "" /\ criteria = <<>>

\* C24: ExtractCriteria on a pointer to a struct succeeds exactly when it
\* does on the struct pointed to, and returns the same Criteria.
C24_PointerToStructAccepted ==
  (Extracted /\ extract.source.kind = "ptr") =>
    LET direct == ExtractCriteria([extract.source EXCEPT !.kind = "struct"])
    IN /\ (extract.err = "") = (direct.err = "")
       /\ criteria = direct.ret

\* C25: ExtractCriteria fails with the malformed-tag error whenever a field
\* of the source struct carries a tag that does not split on ':' into
\* exactly two parts, whatever the values and the other tags.
C25_MalformedTagFails ==
  (/\ Extracted /\ extract.source.kind = "struct"
   /\ \E i \in 1..Len(extract.source.fields) :
        LET sf == extract.source.fields[i] IN sf.tag # "" /\ ~WellFormed(sf)) =>
    extract.err = "criteria condition tag error" /\ criteria = <<>>

\* C26: for a source struct whose tags are all well-formed tags of predicate
\* operators (with values a like-operator can convert), ExtractCriteria
\* yields one predicate (a where-condition or one group) per field with a
\* non-zero value, and nothing for the others.
C26_OnePredicatePerField ==
  (/\ Extracted /\ extract.source.kind = "struct"
   /\ \A i \in 1..Len(extract.source.fields) :
        LET sf == extract.source.fields[i]
        IN /\ sf.tag # "" /\ WellFormed(sf) /\ Operator(sf) \in PredicateOperators
           /\ Convertible(sf)) =>
    LET live == SelectSeq(extract.source.fields, Live)
        single == SelectSeq(live, LAMBDA sf : Len(Targets(sf)) = 1)
        multi == SelectSeq(live, LAMBDA sf : Len(Targets(sf)) > 1)
    IN /\ extract.err = "" /\ Len(criteria) = 1
       /\ Len(criteria[1].whereConditions) = Len(single)
       /\ Len(criteria[1].groupOrConditions) = Len(multi)
       /\ Len(live) = 0 => criteria[1] = NewCriteria

\* C27: a live field whose tag names k >= 2 targets with a predicate operator
\* (and a value a like-operator can convert) yields one group of k condition specs, one per target in tag order, each
\* bound to one argument, and no where-condition; a tag naming one target
\* yields one where-condition and no group.
C27_FanOut ==
  (/\ Extracted /\ extract.source.kind = "struct"
   /\ Len(extract.source.fields) = 1
   /\ Live(extract.source.fields[1]) /\ WellFormed(extract.source.fields[1])
   /\ Operator(extract.source.fields[1]) \in PredicateOperators
   /\ Convertible(extract.source.fields[1])) =>
    LET sf == extract.source.fields[1]
        k == Len(Targets(sf))
    IN /\ extract.err = "" /\ Len(criteria) = 1
       /\ IF k >= 2
          THEN /\ criteria[1].whereConditions = <<>>
               /\ Len(criteria[1].groupOrConditions) = 1
               /\ Len(criteria[1].groupOrConditions[1]) = k
               /\ \A j \in 1..k :
                    LET spec == criteria[1].groupOrConditions[1][j]
                        built == buildConditionSpec(Operator(sf), Targets(sf)[j], sf.value)
                    IN built.query = <<spec.query>> /\ spec.args = built.args
                       /\ Len(spec.args) = 1
          ELSE /\ Len(criteria[1].whereConditions) = 1
               /\ criteria[1].groupOrConditions = <<>>

\* C28: a field tagged with a meta-directive (page, per_page, offset, limit,
\* sort) adds no predicate: the predicates extracted are those extracted
\* from the struct without its meta-directive fields.
C28_MetaAddsNoPredicate ==
  (Extracted /\ extract.source.kind = "struct" /\ extract.err = "") =>
    LET isMeta(sf) == sf.tag # "" /\ WellFormed(sf) /\ Operator(sf) \in MetaOperators
        rest == ExtractCriteria(Without(extract.source, isMeta))
    IN /\ rest.err = ""
       /\ Predicates(criteria[1]) = Predicates(rest.ret[1])
       /\ criteria[1].preloads = <<>>
       /\ (\A i \in 1..Len(extract.source.fields) : isMeta(extract.source.fields[i]))
            => Predicates(criteria[1]) = Predicates(NewCriteria)

C28_Witness ==
  /\ Extracted /\ extract.err = ""
  /\ Len(extract.source.fields) = 2
  /\ extract.source.fields[1] = [tag |-> "-:sort", value |-> StringValue("name+,age-")]
  /\ extract.source.fields[2] = [tag |-> "-:page", value |-> IntValue(2)]
  /\ criteria[1].orders = <<"name", "age DESC">> /\ criteria[1].page = 2
  /\ Predicates(criteria[1]) = Predicates(NewCriteria)

\* C29: an operator that is neither a predicate operator of the code nor a
\* meta-directive is a silent no-op: buildConditionSpec gives the empty spec
\* and no error, and ExtractCriteria returns what it returns for the struct
\* without the fields tagged with it.
C29_UnknownOperatorIsNoOp ==
  (Extracted /\ extract.source.kind = "struct") =>
    LET isUnknown(sf) ==
          /\ Live(sf) /\ WellFormed(sf)
          /\ Operator(sf) \notin DOMAIN conditionMapping \cup valueStringOperator
          /\ Operator(sf) \notin MetaOperators
        rest == ExtractCriteria(Without(extract.source, isUnknown))
    IN /\ extract.err = rest.err /\ criteria = rest.ret
       /\ \A i \in 1..Len(extract.source.fields) :
            LET sf == extract.source.fields[i]
            IN isUnknown(sf) =>
                 \A j \in 1..Len(Targets(sf)) :
                   buildConditionSpec(Operator(sf), Targets(sf)[j], sf.value) = EmptySpec

C29_Witness ==
  /\ Extracted /\ extract.err = ""
  /\ Len(extract.source.fields) = 2
  /\ extract.source.fields[1] = [tag |-> "x:unknown", value |-> StringValue("name+,age-")]
  /\ extract.source.fields[2] = [tag |-> "id:eq", value |-> IntValue(2)]
  /\ criteria[1].whereConditions = <<[query |-> "id = ?", args |-> <<IntValue(2)>>]>>

\* C30: for each operator of eq, neq, gt, gte, lt, lte, in, buildConditionSpec
\* yields the fragment "<field> <sym> ?" with the symbol of the table, bound
\* to exactly the one value.
C30_ComparisonFragments ==
  Extracted =>
    \A i \in 1..Len(extract.source.fields) :
      LET sf == extract.source.fields[i]
      IN (Live(sf) /\ WellFormed(sf) /\ Operator(sf) \in DOMAIN ComparisonSymbols) =>
           \A j \in 1..Len(Targets(sf)) :
             buildConditionSpec(Operator(sf), Targets(sf)[j], sf.value) =
               [query |-> <<Targets(sf)[j] \o " " \o ComparisonSymbols[Operator(sf)] \o " ?">>,
                args |-> <<sf.value>>, err |-> ""]

\* the string-match operators and where each puts the wildcard
LikeOperators == {"like", "llike", "rlike"}

Wrapped(op, str) ==
  CASE op = "like" -> "%" \o str \o "%"
    [] op = "llike" -> "%" \o str
    [] op = "rlike" -> str \o "%"

\* the fields of the extracted struct that a string-match operator reads
LikeFields ==
  {i \in 1..Len(extract.source.fields) :
     LET sf == extract.source.fields[i]
     IN Live(sf) /\ WellFormed(sf) /\ Operator(sf) \in LikeOperators /\ Convertible(sf)}

\* C31 as stated: for like, llike and rlike, buildConditionSpec yields the
\* fragment "<field> LIKE ?" with one bound value, the string form of the
\* input wrapped with '%' on both sides, on the left, or on the right.
C31_LikeFragmentUpper ==
  Extracted =>
    \A i \in LikeFields :
      LET sf == extract.source.fields[i]
      IN \A j \in 1..Len(Targets(sf)) :
           buildConditionSpec(Operator(sf), Targets(sf)[j], sf.value) =
             [query |-> <<Targets(sf)[j] \o " LIKE ?">>,
              args |-> <<StringValue(Wrapped(Operator(sf), AnyToString(sf.value).v))>>,
              err |-> ""]

\* C31 (amended): for like, llike and rlike and an input that has a string
\* form, buildConditionSpec yields the fragment "<field> like ?", keyword in
\* lower case, with one bound value: the string form of the input wrapped
\* with '%' on both sides, on the left only, or on the right only.
C31_LikeFragment ==
  Extracted =>
    \A i \in LikeFields :
      LET sf == extract.source.fields[i]
      IN \A j \in 1..Len(Targets(sf)) :
           buildConditionSpec(Operator(sf), Targets(sf)[j], sf.value) =
             [query |-> <<Targets(sf)[j] \o " like ?">>,
              args |-> <<StringValue(Wrapped(Operator(sf), AnyToString(sf.value).v))>>,
              err |-> ""]

C31_Witness ==
  /\ Extracted /\ extract.err = ""
  /\ Len(extract.source.fields) = 2
  /\ extract.source.fields[1] = [tag |-> "email:llike", value |-> StringValue("bar")]
  /\ extract.source.fields[2] = [tag |-> "c:rlike", value |-> IntValue(2)]
  /\ criteria[1].whereConditions =
       <<[query |-> "email like ?", args |-> <<StringValue("%bar")>>],
         [query |-> "c like ?", args |-> <<StringValue("2%")>>]>>

\* the order directive the sort grammar field[+|-] gives for one token
Directive(token) ==
  LET n == Len(token)
      sign == IF n = 0 THEN "" ELSE SubSeq(token, n, n)
      name == IF sign \in {"+", "-"} THEN SubSeq(token, 1, n - 1) ELSE token
  IN IF sign = "-" THEN name \o " DESC" ELSE name

Directives(tokens) == [k \in 1..Len(tokens) |-> Directive(tokens[k])]

\* the directives of the sort fields of a struct, in field order
RECURSIVE SortDirectives(_)
SortDirectives(fields) ==
  IF fields = <<>> THEN <<>>
  ELSE LET sf == Head(fields)
       IN (IF Live(sf) /\ WellFormed(sf) /\ Operator(sf) = "sort"
           THEN Directives(Split(AnyToString(sf.value).v, ","))
           ELSE <<>>) \o SortDirectives(Tail(fields))

\* C32: a sort meta-directive with value t1,...,tn adds exactly n order
\* directives in token order, each the token with its trailing '+' or '-'
\* stripped and marked descending exactly when the token ends in '-'.
C32_SortDirectives ==
  (Extracted /\ extract.source.kind = "struct" /\ extract.err = "") =>
    criteria[1].orders = SortDirectives(extract.source.fields)

C32_Witness ==
  /\ Extracted /\ extract.err = ""
  /\ Len(extract.source.fields) = 2
  /\ extract.source.fields[1] = [tag |-> "-:sort", value |-> StringValue("name+,age-")]
  /\ extract.source.fields[2] = [tag |-> "-:sort", value |-> StringValue("bar")]
  /\ criteria[1].orders = <<"name", "age DESC", "bar">>

(***************************************************************************)
(* Reserved-word quoting (utils.go) and the Criteria helpers that embed a  *)
(* field name: a caller builds an identifier of up to MaxSegments segments *)
(* joined by dots and hands it to QuoteReservedWord, to Order or to        *)
(* buildConditionSpec.                                                     *)
(***************************************************************************)
MaxSegments == 3

mysqlReservedWords ==
  {"ADD", "ALL", "ALTER", "ANALYZE", "AND", "AS", "ASC", "ASENSITIVE",
   "BEFORE", "BETWEEN", "BIGINT", "BLOB", "BOTH", "BY", "CALL", "CASCADE",
   "CASE", "CHANGE", "CHAR", "CHARACTER", "CHECK", "COLLATE", "COLUMN",
   "CONDITION", "CONSTRAINT", "CONTINUE", "CONVERT", "CREATE", "CROSS",
   "CURRENT_DATE", "CURRENT_TIME", "CURRENT_TIMESTAMP", "CURRENT_USER",
   "CURSOR", "DATABASE", "DATABASES", "DAY_HOUR", "DAY_MICROSECOND",
   "DAY_MINUTE", "DAY_SECOND", "DEC", "DECIMAL", "DECLARE", "DEFAULT",
   "DELAYED", "DELETE", "DESC", "DESCRIBE", "DETERMINISTIC", "DISTINCT",
   "DISTINCTROW", "DIV", "DOUBLE", "DROP", "DUAL", "EACH", "ELSE", "ELSEIF",
   "ENCLOSED", "ESCAPED", "EXISTS", "EXIT", "EXPLAIN", "FALSE", "FETCH",
   "FLOAT", "FLOAT4", "FLOAT8", "FOR", "FORCE", "FOREIGN", "FROM",
   "FULLTEXT", "GRANT", "GROUP", "HAVING", "HIGH_PRIORITY",
   "HOUR_MICROSECOND", "HOUR_MINUTE", "HOUR_SECOND", "IF", "IGNORE", "IN",
   "INDEX", "INFILE", "INNER", "INOUT", "INSENSITIVE", "INSERT", "INT",
   "INT1", "INT2", "INT3", "INT4", "INT8", "INTEGER", "INTERVAL", "INTO",
   "IS", "ITERATE", "JOIN", "KEY", "KEYS", "KILL", "LEADING", "LEAVE",
   "LEFT", "LIKE", "LIMIT", "LINES", "LOAD", "LOCALTIME", "LOCALTIMESTAMP",
   "LOCK", "LONG", "LONGBLOB", "LONGTEXT", "LOOP", "LOW_PRIORITY",
   "MASTER_SSL_VERIFY_SERVER_CERT", "MATCH", "MAXVALUE", "MEDIUMBLOB",
   "MEDIUMINT", "MEDIUMTEXT", "MIDDLEINT", "MINUTE_MICROSECOND",
   "MINUTE_SECOND", "MOD", "MODIFIES", "NATURAL", "NOT",
   "NO_WRITE_TO_BINLOG", "NULL", "NUMERIC", "ON", "OPTIMIZE", "OPTION",
   "OPTIONALLY", "OR", "ORDER", "OUT", "OUTER", "OUTFILE", "PRECISION",
   "PRIMARY", "PROCEDURE", "PURGE", "RANGE", "READ", "READS", "READ_WRITE",
   "REAL", "REFERENCES", "REGEXP", "RELEASE", "RENAME", "REPEAT", "REPLACE",
   "REQUIRE", "RESTRICT", "RETURN", "REVOKE", "RIGHT", "RLIKE", "SCHEMA",
   "SCHEMAS", "SECOND_MICROSECOND", "SELECT", "SENSITIVE", "SEPARATOR",
   "SET", "SHOW", "SMALLINT", "SPATIAL", "SPECIFIC", "SQL", "SQLEXCEPTION",
   "SQLSTATE", "SQLWARNING", "SQL_BIG_RESULT", "SQL_CALC_FOUND_ROWS",
   "SQL_SMALL_RESULT", "SSL", "STARTING", "STRAIGHT_JOIN", "TABLE",
   "TERMINATED", "THEN", "TINYBLOB", "TINYINT", "TINYTEXT", "TO", "TRAILING",
   "TRIGGER", "TRUE", "UNDO", "UNION", "UNIQUE", "UNLOCK", "UNSIGNED",
   "UPDATE", "USAGE", "USE", "USING", "UTC_DATE", "UTC_TIME",
   "UTC_TIMESTAMP", "VALUES", "VARBINARY", "VARCHAR", "VARCHARACTER",
   "VARYING", "WHEN", "WHERE", "WHILE", "WITH", "WRITE", "XOR", "YEAR_MONTH",
   "ZEROFILL", "RANK"}

\* the quoting character U+0060 that QuoteReservedWord puts around a word; a
\* string of this module cannot hold that character, so an apostrophe
\* stands for it
Backtick == "'"

Lower == "abcdefghijklmnopqrstuvwxyz"

Upper == "ABCDEFGHIJKLMNOPQRSTUVWXYZ"

\* the upper-case form of one character
ToUpperChar(ch) ==
  IF \E k \in 1..Len(Lower) : Char(Lower, k) = ch
  THEN Char(Upper, CHOOSE k \in 1..Len(Lower) : Char(Lower, k) = ch)
  ELSE ch

RECURSIVE ToUpper(_)
ToUpper(s) ==
  IF Len(s) = 0 THEN "" ELSE ToUpperChar(Char(s, 1)) \o ToUpper(SubSeq(s, 2, Len(s)))

\* strings.EqualFold on ASCII identifiers
EqualFold(a, b) == ToUpper(a) = ToUpper(b)

IsMySQLReservedWord(word) ==
  \E reservedWord \in mysqlReservedWords : EqualFold(word, reservedWord)

QuoteReservedWord(word) ==
  IF IsMySQLReservedWord(word) THEN Backtick \o word \o Backtick ELSE word

Segments == {"order", "OrDeR", "group", "users", "username", "", "'order'"}

QuoteOperators == {"eq", "like"}

InitQuote ==
  /\ stores = <<New("db")>>
  /\ origin = <<0>>
  /\ call = [op |-> "New", recv |-> 0, ret |-> 1, ran |-> FALSE]
  /\ criteria = <<>>
  /\ query = <<>>
  /\ paginate = NoPaginate
  /\ extract = NoExtract
  /\ \E segment \in Segments : quote = [NoQuote EXCEPT !.word = segment, !.segments = 1]

\* word + "." + segment
AddSegment ==
  \E segment \in Segments :
    /\ quote.op = ""
    /\ quote.segments < MaxSegments
    /\ quote' = [quote EXCEPT !.word = @ \o "." \o segment, !.segments = @ + 1]
    /\ UNCHANGED <<stores, origin, call, criteria, query, paginate, extract>>

CallQuoteReservedWord ==
  /\ quote.op = ""
  /\ quote' = [quote EXCEPT !.op = "QuoteReservedWord", !.result = QuoteReservedWord(quote.word)]
  /\ UNCHANGED <<stores, origin, call, criteria, query, paginate, extract>>

\* NewCriteria().Order(word, reorder)
CallOrderWord ==
  \E reorder \in BOOLEAN :
    /\ quote.op = ""
    /\ criteria' = <<Order(NewCriteria, quote.word, reorder)>>
    /\ quote' = [quote EXCEPT !.op = "Order", !.reorder = reorder]
    /\ UNCHANGED <<stores, origin, call, query, paginate, extract>>

\* buildConditionSpec(operator, word, 2), the spec added as ExtractCriteria adds it
CallBuildConditionSpec ==
  \E operator \in QuoteOperators :
    LET wc == buildConditionSpec(operator, quote.word, IntValue(2))
    IN /\ quote.op = ""
       /\ criteria' = <<Where(NewCriteria, wc.query[1], wc.args)>>
       /\ quote' = [quote EXCEPT !.op = "buildConditionSpec", !.operator = operator,
                                 !.result = wc.query[1]]
       /\ UNCHANGED <<stores, origin, call, query, paginate, extract>>

\* NewCriteria().WhereIn(word, []int{1})
CallWhereIn ==
  /\ quote.op = ""
  /\ criteria' = <<WhereIn(NewCriteria, quote.word, SliceValue(<<1>>))>>
  /\ quote' = [quote EXCEPT !.op = "WhereIn"]
  /\ UNCHANGED <<stores, origin, call, query, paginate, extract>>

\* NewCriteria().WhereNotIn(word, []int{1})
CallWhereNotIn ==
  /\ quote.op = ""
  /\ criteria' = <<WhereNotIn(NewCriteria, quote.word, SliceValue(<<1>>))>>
  /\ quote' = [quote EXCEPT !.op = "WhereNotIn"]
  /\ UNCHANGED <<stores, origin, call, query, paginate, extract>>

NextQuote ==
  \/ AddSegment \/ CallQuoteReservedWord \/ CallOrderWord \/ CallBuildConditionSpec
  \/ CallWhereIn \/ CallWhereNotIn

SpecQuote == InitQuote /\ [][NextQuote]_vars

\* one segment of a path, quoted when it is a reserved word
QuoteSegment(segment) ==
  IF IsMySQLReservedWord(segment) THEN Backtick \o segment \o Backtick ELSE segment

RECURSIVE JoinDots(_)
JoinDots(segments) ==
  IF Len(segments) = 1 THEN Head(segments)
  ELSE Head(segments) \o "." \o JoinDots(Tail(segments))

QuotePath(word) ==
  LET segments == Split(word, ".")
  IN JoinDots([k \in 1..Len(segments) |-> QuoteSegment(segments[k])])

\* C33: QuoteReservedWord treats its argument as a dot-separated path and
\* quotes each segment independently: a segment that is a reserved word in
\* any letter case is wrapped in backticks, every other segment, empty and
\* already backticked ones included, is left unchanged.
C33_QuotesEachSegment ==
  quote.op = "QuoteReservedWord" => quote.result = QuotePath(quote.word)

\* C34: Order and buildConditionSpec pass the field through
\* QuoteReservedWord before embedding it, so the stored order directive or
\* predicate fragment carries the quoted field.
C34_HelpersQuoteField ==
  /\ quote.op = "Order" =>
       criteria[1].orders =
         <<IF quote.reorder THEN QuoteReservedWord(quote.word) \o " DESC"
           ELSE QuoteReservedWord(quote.word)>>
  /\ quote.op = "buildConditionSpec" =>
       criteria[1].whereConditions[1].query =
         QuoteReservedWord(quote.word) \o
           (IF quote.operator = "like" THEN " like ?"
            ELSE " " \o conditionMapping[quote.operator] \o " ?")

(***************************************************************************)
(* A Criteria handed to the Store: a caller that has built a Criteria with *)
(* the mutators hands a pointer to it to the operations that take one; the *)
(* variable criteria holds the caller's object after each call.            *)
(***************************************************************************)
\* entries a store's preload list may reach when Criteria preloads are merged
MaxMerged == 4

ReadOps ==
  {"Find", "First", "Deletes", "Update", "Updates", "Pluck", "Count", "Sum", "Avg", "Exists"}

Operation(op, h, r, c, fails) ==
  CASE op = "Find" -> Find(h, r, c, fails)
    [] op = "First" -> First(h, r, c, fails)
    [] op = "Deletes" -> Deletes(h, r, c)
    [] op = "Update" -> Update(h, r, c)
    [] op = "Updates" -> Updates(h, r, c)
    [] op = "Pluck" -> Pluck(h, r, c, fails)
    [] op = "Count" -> Count(h, r, c, FALSE, fails)
    [] op = "Sum" -> Sum(h, r, c, FALSE, fails)
    [] op = "Avg" -> Avg(h, r, c, FALSE, fails)
    [] op = "Exists" -> Exists(h, r, c, FALSE, fails)

CallOperation ==
  \E op \in ReadOps, r \in Instances, fails \in BOOLEAN :
    LET res == Operation(op, stores, r, criteria, fails)
    IN /\ Len(criteria) > 0
       /\ Len(res.heap[r].preloads) <= MaxMerged
       /\ stores' = res.heap
       /\ query' = res.db
       /\ criteria' = res.given
       /\ call' = [op |-> op, recv |-> r, ret |-> 0, ran |-> Len(res.db) > 0]
       /\ UNCHANGED <<origin, paginate, extract, quote>>

\* the caller holds one of the store instances and a Criteria it has built
InitGiven ==
  /\ stores \in PresentStores
  /\ origin = <<0, 1>>
  /\ call = [op |-> "New", recv |-> 0, ret |-> 1, ran |-> FALSE]
  /\ criteria \in PaginateCriteria \ {<<>>}
  /\ query = <<>>
  /\ paginate = NoPaginate
  /\ extract = NoExtract
  /\ quote = NoQuote

NextGiven == CallOperation

SpecGiven == InitGiven /\ [][NextGiven]_vars

\* C35: a Criteria handed to Find, First, Deletes, Update, Updates, Pluck,
\* Count, Sum, Avg or Exists is read-only: when the operation returns, every
\* field of the caller's Criteria equals its value before the call; the
\* aggregates strip order and limit only on their own copy.
C35_GivenCriteriaUnchanged ==
  [][call'.op \in ReadOps => criteria' = criteria]_vars

C35_Witness ==
  /\ call.op = "Count" /\ call.ran
  /\ Len(criteria) > 0 /\ Len(criteria[1].orders) > 0 /\ criteria[1].limit > 0
  /\ OfKind(query, "Order") = <<>> /\ OfKind(query, "Limit") = <<>>

\* C36: WhereIn(field, values) appends exactly one where-condition with the
\* fragment "<field> IN ?" and WhereNotIn(field, values) exactly one with
\* the fragment "<field> NOT IN ?", each bound to values.
C36_InFragments ==
  /\ quote.op = "WhereIn" =>
       criteria = <<Where(NewCriteria, quote.word \o " IN ?", <<SliceValue(<<1>>)>>)>>
  /\ quote.op = "WhereNotIn" =>
       criteria = <<Where(NewCriteria, quote.word \o " NOT IN ?", <<SliceValue(<<1>>)>>)>>

\* the heap with the receiver of Paginate as it was when Paginate was called
AtCall == [stores EXCEPT ![paginate.recv] = paginate.config[1]]

\* C37: during Paginate on an instance that carries transient configuration,
\* the Count task and the Find task both compile their query against the
\* configuration the instance had when Paginate was called, in every
\* interleaving of the two tasks; the reset performed by Find never changes
\* what Count applies.
C37_TasksCompileCallConfiguration ==
  paginate.pc \in {"wait", "returned"} =>
    /\ paginate.count.pc \in {"exec", "done"} =>
         paginate.count.db = Count(AtCall, paginate.recv, criteria, FALSE, FALSE).db
    /\ paginate.find.pc \in {"exec", "reset", "done"} =>
         paginate.find.db = present(AtCall, paginate.recv, criteria).db \o Finish("Find")

\* C38: compiling a query does not modify the Store: Count, Sum, Avg and
\* Exists leave the instance's preloads, columns, hidden, scope closures,
\* unscoped flag and transaction unchanged, so the same aggregate called
\* again on the same instance with the same Criteria compiles the same
\* query, with no preload entry applied more than once.
C38_CompilingLeavesStore ==
  [][call'.op \in AggregateOps \cup {"Exists"} =>
       /\ stores' = stores
       /\ (call.op = call'.op /\ call.recv = call'.recv /\ call.ran /\ call'.ran)
            => query' = query]_vars

\* C39: GetOffset() is never negative for a Criteria reached from
\* NewCriteria() through the mutators called with non-negative Limit, PerPage
\* and Offset arguments, including when Page was never called.
C39_OffsetNeverNegative ==
  Len(criteria) > 0 => GetOffset(criteria[1]) >= 0

====
